---- MODULE Spec2Model ----
(***************************************************************************)
(* A model of the next-drupal client (packages/next-drupal/src/client.ts): *)
(* the request executor, the access-token cache, path resolution through   *)
(* subrequests, the menu tree builder and the static path builder.         *)
(*                                                                         *)
(* JavaScript values: a string is a sequence of pieces (characters where   *)
(* the code looks at characters), `undefined` is the value Undefined, an   *)
(* optional field is a sequence of length 0 or 1.  An async function is a  *)
(* sequence of atomic steps, one per stretch of code between two awaits.   *)
(***************************************************************************)
EXTENDS Integers, Sequences, FiniteSets, TLC

VARIABLES
  constructed,     \* the constructor returned (did not throw)
  _auth,           \* this._auth
  fetcher,         \* this.fetcher is set (a custom transport)
  _token,          \* this._token, <<>> when undefined
  tokenExpiresOn,  \* this.tokenExpiresOn, <<>> when undefined
  now,             \* Date.now()
  calls,           \* the client calls in flight, one record per caller
  issued,          \* history: the tokens the token endpoint has returned
  lastStored,      \* history: the token response processed last, and when
  fn,              \* pure functions: the function applied last
  arg,             \* pure functions: its arguments
  result,          \* pure functions: what it returned
  config,          \* baseUrl, apiPrefix, _headers, frontPage, withAuth,
                   \* useDefaultResourceTypeEntry
  staticPaths,     \* the getStaticPathsFromContext call in flight
  preview,         \* the preview handler's request and response
  settled          \* history: the outcomes the caller has taken, in order

vars == <<constructed, _auth, fetcher, _token, tokenExpiresOn, now, calls,
          issued, lastStored, fn, arg, result, config, staticPaths, preview,
          settled>>

clientVars == <<constructed, _auth, fetcher, _token, tokenExpiresOn, now,
                calls, issued, lastStored>>

pureVars == <<fn, arg, result>>

flowVars == <<staticPaths, preview, settled>>

(***************************************************************************)
(* Bounds of the model.                                                    *)
(***************************************************************************)
NumCalls == 2
MaxTicks == 2

MsPerSecond == 1000

Calls == 1..NumCalls

(***************************************************************************)
(* JavaScript values.                                                      *)
(***************************************************************************)
Undefined == <<"undefined">>

Truthy(v) == v # Undefined /\ v # <<>>

Str(s) == <<s>>

Some(x) == <<x>>

Nothing == <<>>

(***************************************************************************)
(* Strings the code looks into are sequences of characters.                *)
(***************************************************************************)
\* s.charAt(i), "" past the end.
CharAt(s, i) == IF i + 1 \in DOMAIN s THEN s[i + 1] ELSE ""

\* s.slice(-1)
LastChar(s) == IF s = <<>> THEN "" ELSE s[Len(s)]

\* s.indexOf(sub): the first place, from 0, where sub occurs; -1 if none.
IndexOf(s, sub) ==
  LET places == {i \in 0..(Len(s) - Len(sub)) :
                   SubSeq(s, i + 1, i + Len(sub)) = sub}
  IN  IF places = {} THEN -1
      ELSE CHOOSE i \in places : \A j \in places : i <= j

\* s.replace(/^\/+/, "")
RECURSIVE StripLeadingSlashes(_)
StripLeadingSlashes(s) ==
  IF s # <<>> /\ Head(s) = "/" THEN StripLeadingSlashes(Tail(s)) ELSE s

\* s.replace(/\/$/, "")
StripTrailingSlash(s) ==
  IF s # <<>> /\ s[Len(s)] = "/" THEN SubSeq(s, 1, Len(s) - 1) ELSE s

\* s.replace(/^\//, "")
StripLeadingSlash(s) == IF s # <<>> /\ Head(s) = "/" THEN Tail(s) ELSE s

(***************************************************************************)
(* Client configuration.                                                   *)
(***************************************************************************)
DEFAULT_AUTH_URL == Str("/oauth/token")

DEFAULT_FRONT_PAGE == <<"/", "h", "o", "m", "e">>

\* The constructor's baseUrl and the frontPage it sets.
baseUrl == Str("https://drupal.test")

frontPage == DEFAULT_FRONT_PAGE

DEFAULT_API_PREFIX == <<"/", "jsonapi">>

DEFAULT_WITH_AUTH == FALSE

DEFAULT_HEADERS ==
  [name \in {"Content-Type", "Accept"} |-> Str("application/vnd.api+json")]

\* The fields the constructor sets from its options.
Config(useDefaultResourceTypeEntry) ==
  [baseUrl |-> baseUrl, apiPrefix |-> DEFAULT_API_PREFIX,
   _headers |-> DEFAULT_HEADERS, frontPage |-> frontPage,
   withAuth |-> DEFAULT_WITH_AUTH,
   useDefaultResourceTypeEntry |-> useDefaultResourceTypeEntry]

AuthValue(kind, id, secret, url) ==
  [kind |-> kind, clientId |-> id, clientSecret |-> secret, url |-> url]

NoAuth == AuthValue("undefined", Undefined, Undefined, Undefined)

CallbackAuth == AuthValue("function", Undefined, Undefined, Undefined)

\* The auth options a caller can hand to the constructor.
AuthOptions ==
  { NoAuth, CallbackAuth,
    AuthValue("object", Str("id"), Str("secret"), Undefined),
    AuthValue("object", Str("id"), Str("secret"), Str("/token")),
    AuthValue("object", Undefined, Str("secret"), Undefined),
    AuthValue("object", Str("id"), <<>>, Undefined) }

\* set auth: throws when an object lacks clientId or clientSecret.
SetAuthThrows(auth) ==
  auth.kind = "object" /\ (~Truthy(auth.clientId) \/ ~Truthy(auth.clientSecret))

\* set auth: { url: DEFAULT_AUTH_URL, ...auth }
SetAuth(auth) ==
  IF auth.kind = "object"
  THEN [auth EXCEPT !.url = IF auth.url = Undefined THEN DEFAULT_AUTH_URL ELSE @]
  ELSE auth

(***************************************************************************)
(* The token endpoint and the transport.                                   *)
(***************************************************************************)
AccessToken(id, ttl) == [access_token |-> id, expires_in |-> ttl]

\* The tokens the token endpoint issues: expires_in is in seconds.
Tokens == {AccessToken("t1", 1), AccessToken("t2", 2)}

StatusTexts == {"Unauthorized", "Bad Request"}

TokenResponseValue(ok, statusText, token) ==
  [ok |-> ok, statusText |-> statusText, token |-> token]

\* What the token endpoint answers: a token, or a failure.
TokenResponses ==
  {TokenResponseValue(TRUE, <<"OK">>, <<t>>) : t \in Tokens}
    \cup {TokenResponseValue(FALSE, <<s>>, <<>>) : s \in StatusTexts}

(***************************************************************************)
(* Responses.  A body is what response.json() gives.                       *)
(***************************************************************************)
JsonApiError(status, title, detail) ==
  [status |-> status, title |-> title, detail |-> detail]

Body(message, hasErrors, errors) ==
  [message |-> message, hasErrors |-> hasErrors, errors |-> errors,
   router |-> <<>>, resolvedResource |-> <<>>]

\* The body of a /subrequests response: the router sub-response's body and
\* the resolvedResource sub-response's body, each <<>> when absent.
SubrequestsBody(router, resolvedResource) ==
  [message |-> Undefined, hasErrors |-> FALSE, errors |-> <<>>,
   router |-> router, resolvedResource |-> resolvedResource]

EmptyBody == Body(Undefined, FALSE, <<>>)

Response(ok, statusText, contentType, body) ==
  [ok |-> ok, statusText |-> statusText, contentType |-> contentType,
   body |-> body]

OkResponse == Response(TRUE, Str("OK"), "application/vnd.api+json", EmptyBody)

\* A formatter that reads the last entry of the errors array.
formatJsonApiErrorsLast(errors) ==
  LET error == errors[Len(errors)]
      message == error.status \o Str(" ") \o error.title
  IN  IF Truthy(error.detail)
      THEN message \o Str("\n") \o error.detail
      ELSE message

\* formatJsonApiErrors: const [error] = errors; `${status} ${title}`, then
\* "\n" and the detail when the detail is truthy.
formatJsonApiErrors(errors) ==
  LET error == errors[1]
      message == error.status \o Str(" ") \o error.title
  IN  IF Truthy(error.detail)
      THEN message \o Str("\n") \o error.detail
      ELSE message

\* formatErrorResponse: the message by content type.
formatErrorResponse(response) ==
  LET type == response.contentType
  IN  IF type = "application/json"
      THEN response.body.message
      ELSE IF /\ type = "application/vnd.api+json"
              /\ response.body.hasErrors
              /\ Len(response.body.errors) > 0
           THEN formatJsonApiErrors(response.body.errors)
           ELSE response.statusText

\* The failed responses the transport gives in the client specifications.
FailedResponses ==
  { Response(FALSE, Str("Not Found"), "application/vnd.api+json",
             Body(Undefined, TRUE,
                  <<JsonApiError(Str("404"), Str("Not Found"), Undefined)>>)),
    Response(FALSE, Str("Forbidden"), "application/json",
             Body(Str("Access denied"), FALSE, <<>>)),
    Response(FALSE, Str("Bad Gateway"), "text/html", EmptyBody) }

TransportResponses == {OkResponse} \cup FailedResponses

(***************************************************************************)
(* Calls.  Each caller is at "idle", at an await, or at "done" with the    *)
(* outcome of its last call.                                               *)
(***************************************************************************)
Outcome(kind, token, response, error) ==
  [kind |-> kind, token |-> token, response |-> response, error |-> error,
   value |-> Undefined]

Returned == Outcome("return", Nothing, Nothing, Undefined)

ReturnToken(t) == Outcome("return", Some(t), Nothing, Undefined)

ReturnResponse(r) == Outcome("return", Nothing, Some(r), Undefined)

Throw(message) == Outcome("throw", Nothing, Nothing, message)

\* return of a value that is neither a token nor a response; null is Null.
ReturnValue(v) == [Returned EXCEPT !.value = v]

Null == <<"null">>

Request(to, method, url, authorization, body) ==
  [to |-> to, method |-> method, url |-> url,
   authorization |-> authorization, body |-> body]

FetchInit(method, url, withAuth, authorization, body) ==
  [method |-> method, url |-> url, withAuth |-> withAuth,
   authorization |-> authorization, body |-> body]

NoInit == FetchInit(Undefined, Undefined, FALSE, Undefined, Undefined)

\* The options of getResourceByPath, its defaults filled in.
PathOptions(locale, defaultLocale, withAuth, isVersionable, deserialize, params) ==
  [locale |-> locale, defaultLocale |-> defaultLocale, withAuth |-> withAuth,
   isVersionable |-> isVersionable, deserialize |-> deserialize,
   params |-> params]

NoOptions == PathOptions(Undefined, Undefined, FALSE, FALSE, FALSE, <<>>)

NewCall(op) ==
  [op |-> op, pc |-> "idle", path |-> <<>>, options |-> NoOptions,
   init |-> NoInit, authValue |-> Undefined,
   requests |-> <<>>, tokenResponse |-> Nothing, tokenOutcome |-> Nothing,
   received |-> Nothing, outcome |-> Nothing,
   type |-> <<>>, uuid |-> <<>>, index |-> Nothing, entry |-> Nothing,
   json |-> Nothing, context |-> Nothing]

Free(c) == calls[c].pc = "idle"

Done(call, outcome) == [call EXCEPT !.pc = "done", !.outcome = Some(outcome)]

Send(call, request) == [call EXCEPT !.requests = Append(@, request)]

(***************************************************************************)
(* AuthTokenManager.                                                       *)
(***************************************************************************)
\* The messages of getAccessToken's configuration errors.
AuthNotConfigured ==
  Str("auth is not configured. See https://next-drupal.org/docs/client/auth")

AuthIncomplete ==
  Str("'clientId' and 'clientSecret' required. See https://next-drupal.org/docs/client/auth")

\* A setter that stores the token and keeps an expiry already there.
SetTokenKeepExpiry(token) ==
  /\ _token' = Some(token)
  /\ tokenExpiresOn' = IF tokenExpiresOn = Nothing
                       THEN Some(now + token.expires_in * MsPerSecond)
                       ELSE tokenExpiresOn

\* set token: both fields in one synchronous stretch.
SetToken(token) ==
  /\ _token' = Some(token)
  /\ tokenExpiresOn' = Some(now + token.expires_in * MsPerSecond)

\* The cache check with <= for <.
TokenValidLax ==
  /\ _token # Nothing
  /\ tokenExpiresOn # Nothing
  /\ now <= tokenExpiresOn[1]

\* this._token && Date.now() < this.tokenExpiresOn
TokenValid ==
  /\ _token # Nothing
  /\ tokenExpiresOn # Nothing
  /\ now < tokenExpiresOn[1]

\* The POST of getAccessToken to the token endpoint.
TokenRequest ==
  Request("token", Str("POST"), baseUrl \o _auth.url,
          Str("Basic ") \o Str("base64(") \o _auth.clientId \o Str(":")
            \o _auth.clientSecret \o Str(")"),
          Str("grant_type=client_credentials"))

\* getAccessToken without the checks of this._auth.
getAccessTokenSyncUnchecked ==
  IF TokenValid
  THEN ReturnToken(_token[1])
  ELSE Outcome("await", Nothing, Nothing, Undefined)

\* getAccessToken up to its first await: it throws, returns the cached
\* token, or has sent the token request ("await").
getAccessTokenSync ==
  IF _auth.kind # "object"
  THEN Throw(AuthNotConfigured)
  ELSE IF ~Truthy(_auth.clientId) \/ ~Truthy(_auth.clientSecret)
       THEN Throw(AuthIncomplete)
       ELSE IF TokenValid
            THEN ReturnToken(_token[1])
            ELSE Outcome("await", Nothing, Nothing, Undefined)

\* A getAccessToken that asks the token endpoint once more after a failure.
getAccessTokenResponseRetry(call, response) ==
  IF ~response.ok
  THEN IF Len(call.requests) < 2
       THEN Send(call, TokenRequest)
       ELSE Done(call, Throw(response.statusText))
  ELSE [call EXCEPT !.pc = "tokenJson"]

\* A failed token response reported with a fixed message.
getAccessTokenResponseFixed(call, response) ==
  IF ~response.ok
  THEN Done(call, Throw(Str("Unauthorized")))
  ELSE [call EXCEPT !.pc = "tokenJson"]

\* getAccessToken when the token endpoint has answered: if (!response?.ok)
\* throw new Error(response?.statusText); otherwise await response.json().
getAccessTokenResponse(call, response) ==
  IF ~response.ok
  THEN Done(call, Throw(response.statusText))
  ELSE [call EXCEPT !.pc = "tokenJson"]

\* The values a custom auth callback returns.
CallbackValues == {Str("Bearer custom"), Str("Basic abc")}

(***************************************************************************)
(* RequestExecutor.                                                        *)
(***************************************************************************)
\* Hand the request to the transport: this.fetcher when set, else fetch.
Dispatch(call) ==
  Send([call EXCEPT !.pc = "transport"],
       Request(IF fetcher THEN "fetcher" ELSE "fetch", call.init.method,
               call.init.url, call.init.authorization, call.init.body))

\* fetch that calls the auth callback and leaves the headers as they were.
fetchSyncKeepHeader(call, authValue) ==
  IF call.init.withAuth /\ _auth.kind = "function"
  THEN Dispatch([call EXCEPT !.authValue = authValue])
  ELSE Dispatch(call)

\* fetch that does not wait for a token it has not got in the cache.
fetchSyncUnawaited(call, authValue) ==
  IF call.init.withAuth /\ _auth.kind = "object" /\ TokenValid
  THEN [call EXCEPT !.pc = "authResolved",
                    !.tokenOutcome = Some(ReturnToken(_token[1]))]
  ELSE Dispatch(call)

\* fetch up to its first await.  With withAuth a custom auth callback sets
\* the header at once; otherwise getAccessToken runs up to its first await.
fetchSync(call, authValue) ==
  IF call.init.withAuth
  THEN IF _auth.kind = "function"
       THEN Dispatch([call EXCEPT !.init.authorization = authValue,
                                  !.authValue = authValue])
       ELSE LET r == getAccessTokenSync
            IN  CASE r.kind = "await" ->
                       Send([call EXCEPT !.pc = "tokenResponse"], TokenRequest)
                  [] r.kind = "return" ->
                       [call EXCEPT !.pc = "authResolved",
                                    !.tokenOutcome = Some(r)]
                  [] OTHER -> Done(call, r)
  ELSE Dispatch(call)

\* fetch that returns whatever the transport answered.
fetchResultUnchecked(response, fetcherThrows) == ReturnResponse(response)

\* fetch after the transport answered: a custom fetcher's answer is returned
\* as it is; the default transport's answer is returned when ok, and its
\* formatted message is thrown otherwise.
fetchResult(response, fetcherThrows) ==
  IF fetcher
  THEN IF fetcherThrows
       THEN Throw(Str("fetcher error"))
       ELSE ReturnResponse(response)
  ELSE IF response.ok
       THEN ReturnResponse(response)
       ELSE Throw(formatErrorResponse(response))

\* A fetch that merges the caller's headers into this._headers in place.
initHeadersAssigned == TRUE

\* init = { ...init, headers: { ...this._headers, ...init?.headers } }:
\* whether init.headers is the object this._headers afterwards.  The spread
\* makes a new object.
initHeadersIsClientHeaders == FALSE

\* this._headers after init["headers"]["Authorization"] = value.
headersAfterWrite(headers, value) ==
  IF initHeadersIsClientHeaders
  THEN [name \in DOMAIN headers \cup {"Authorization"} |->
          IF name = "Authorization" THEN value ELSE headers[name]]
  ELSE headers

\* this._headers after a step of the calls: a fetch with withAuth that went
\* on to the transport in the step has written its Authorization header.
headersAfterFetch(headers, before, after) ==
  LET written == {c \in DOMAIN after :
                    /\ after[c].pc = "transport"
                    /\ before[c].pc # "transport"
                    /\ after[c].init.withAuth}
  IN  IF written = {}
      THEN headers
      ELSE headersAfterWrite(headers,
             after[CHOOSE c \in written : TRUE].init.authorization)

(***************************************************************************)
(* UrlBuilder.  Query parameters are an ordered list of <<key, value>>.    *)
(***************************************************************************)
RECURSIVE Join(_, _)
Join(parts, sep) ==
  IF parts = <<>> THEN <<>>
  ELSE IF Len(parts) = 1 THEN parts[1]
       ELSE parts[1] \o sep \o Join(Tail(parts), sep)

\* qs.stringify: key=value pairs joined by "&" (percent-encoding left out).
stringify(params) ==
  Join([i \in DOMAIN params |-> <<params[i][1], "=">> \o params[i][2]], <<"&">>)

\* params[key], Undefined when the key is absent.
ParamValue(params, key) ==
  LET hits == {i \in DOMAIN params : params[i][1] = key}
  IN  IF hits = {} THEN Undefined ELSE params[CHOOSE i \in hits : TRUE][2]

\* const { [key]: _, ...rest } = params
WithoutParam(params, key) ==
  LET Other(p) == p[1] # key IN SelectSeq(params, Other)

\* buildUrl: a path that starts with "/" is relative to baseUrl.
buildUrl(path, params) ==
  (IF CharAt(path, 0) = "/" THEN baseUrl \o path ELSE path)
    \o (IF params = <<>> THEN <<>> ELSE <<"?">> \o stringify(params))

(***************************************************************************)
(* ResourceResolver.                                                       *)
(***************************************************************************)
\* getPathFromContext: the prefix, the locale put before it when it is not
\* the default one, the slug (the front page when the slug is empty).
getPathFromContext(slug, locale, defaultLocale, optionsPrefix) ==
  LET prefix0 == IF CharAt(optionsPrefix, 0) = "/"
                 THEN optionsPrefix
                 ELSE <<"/">> \o optionsPrefix
      prefix1 == IF Truthy(locale) /\ locale # defaultLocale
                 THEN <<"/">> \o locale \o prefix0
                 ELSE prefix0
      joined == Join(slug, <<"/">>)
      slug1 == IF joined = <<>> THEN frontPage ELSE joined
      prefix == IF joined = <<>> THEN StripTrailingSlash(prefix1) ELSE prefix1
      slug2 == IF LastChar(prefix) # "/" /\ CharAt(slug1, 0) # "/"
               THEN <<"/">> \o slug1
               ELSE slug1
  IN  prefix \o slug2

\* getResourceByPath: the path with the locale put in front when a locale
\* and a default locale are given and the locale is not at index 1.
localizedPath(path, options) ==
  IF /\ Truthy(options.locale)
     /\ Truthy(options.defaultLocale)
     /\ IndexOf(path, options.locale) # 1
  THEN getPathFromContext(
         <<IF path = <<"/">> THEN path ELSE StripLeadingSlashes(path)>>,
         options.locale, options.defaultLocale, <<"/">>)
  ELSE path

\* getResourceByPath: the params of the resolvedResource sub-request.
resourceParams(options) ==
  LET given == ParamValue(options.params, "resourceVersion")
      isVersionable == options.isVersionable \/ Truthy(given)
      resourceVersion == IF given = Undefined
                         THEN Str("rel:latest-version")
                         ELSE given
      params == WithoutParam(options.params, "resourceVersion")
  IN  IF isVersionable
      THEN Append(params, <<"resourceVersion", resourceVersion>>)
      ELSE params

Subrequest(requestId, uri, accept, waitFor) ==
  [requestId |-> requestId, action |-> "view", uri |-> uri,
   accept |-> accept, waitFor |-> waitFor]

\* A payload whose second sub-request does not wait for the first.
subrequestsPayloadNoWait(path, params) ==
  << Subrequest("router",
                Str("/router/translate-path?path=") \o path
                  \o Str("&_format=json"),
                Str("application/vnd.api+json"), Nothing),
     Subrequest("resolvedResource",
                Str("{{router.body@$.jsonapi.individual}}?") \o stringify(params),
                Undefined, Nothing) >>

\* getResourceByPath: the payload, "router" then "resolvedResource".
subrequestsPayload(path, params) ==
  << Subrequest("router",
                Str("/router/translate-path?path=") \o path
                  \o Str("&_format=json"),
                Str("application/vnd.api+json"), Nothing),
     Subrequest("resolvedResource",
                Str("{{router.body@$.jsonapi.individual}}?") \o stringify(params),
                Undefined, Some(<<"router">>)) >>

\* getResourceByPath: "/subrequests", or "/<locale>/subrequests".
subrequestsPath(options) ==
  IF /\ Truthy(options.locale)
     /\ Truthy(options.defaultLocale)
     /\ options.locale # options.defaultLocale
  THEN <<"/">> \o options.locale \o <<"/", "subrequests">>
  ELSE <<"/", "subrequests">>

\* getResourceByPath: the init of its one fetch.
subrequestsInit(path, options) ==
  FetchInit(Str("POST"),
            buildUrl(subrequestsPath(options), <<<<"_format", Str("json")>>>>),
            options.withAuth, Undefined,
            subrequestsPayload(localizedPath(path, options),
                               resourceParams(options)))

\* What a caller passes to getResourceFromContext besides the type: the
\* context's slug, locales, preview flag and preview data, and the options
\* isVersionable ("absent" when not given), withAuth and params.
Context(slug, locale, defaultLocale, isPreview, resourceVersion, isVersionable, withAuth, params) ==
  [slug |-> slug, locale |-> locale, defaultLocale |-> defaultLocale,
   preview |-> isPreview, resourceVersion |-> resourceVersion,
   isVersionable |-> isVersionable, withAuth |-> withAuth, params |-> params]

\* /^node--/.test(type), the type in pieces.
IsNodeType(type) == Len(type) >= 2 /\ type[1] = "node" /\ type[2] = "--"

\* A versionable default that is taken from the type whatever the caller's
\* option says.
contextIsVersionableByType(type, context) ==
  IsNodeType(type) \/ context.isVersionable = "true"

\* isVersionable: /^node--/.test(type), ...options
contextIsVersionable(type, context) ==
  IF context.isVersionable = "absent"
  THEN IsNodeType(type)
  ELSE context.isVersionable = "true"

\* { resourceVersion: previewData?.resourceVersion, ...options?.params }
contextParams(context) ==
  IF \E i \in DOMAIN context.params : context.params[i][1] = "resourceVersion"
  THEN context.params
  ELSE IF context.resourceVersion = Undefined
       THEN context.params
       ELSE << <<"resourceVersion", context.resourceVersion>> >>
              \o context.params

\* The options getResourceFromContext passes on to getResourceByPath.
contextPathOptions(type, context) ==
  PathOptions(context.locale, context.defaultLocale,
              context.preview \/ context.withAuth,
              contextIsVersionable(type, context), TRUE,
              contextParams(context))

\* this.deserialize(data)
deserialize(data) == <<"deserialized">> \o data

ResolvedBody(hasErrors, errors, data) ==
  [hasErrors |-> hasErrors, errors |-> errors, data |-> data]

\* A resolution for which a path that resolves to nothing is an error.
getResourceByPathResultStrict(json, options) ==
  IF json.resolvedResource = Nothing
  THEN Throw(IF json.router # Nothing /\ Truthy(json.router[1].message)
             THEN json.router[1].message
             ELSE Str("Not found"))
  ELSE ReturnValue(json.resolvedResource[1].data)

\* getResourceByPath after its fetch returned: null or the router's message
\* when there is no resolvedResource body, the JSON:API error when the body
\* has errors, the resource otherwise.
getResourceByPathResult(json, options) ==
  IF json.resolvedResource = Nothing
  THEN IF json.router # Nothing /\ Truthy(json.router[1].message)
       THEN Throw(json.router[1].message)
       ELSE ReturnValue(Null)
  ELSE LET data == json.resolvedResource[1]
       IN  IF data.hasErrors
           THEN IF data.errors = <<>>
                THEN Throw(Str("TypeError"))
                ELSE Throw(formatJsonApiErrors(data.errors))
           ELSE ReturnValue(IF options.deserialize
                            THEN deserialize(data.data)
                            ELSE data.data)

\* What the /subrequests endpoint answers.
SubrequestsResponses ==
  { Response(TRUE, Str("OK"), "application/json",
             SubrequestsBody(Some([message |-> Undefined]),
                             Some(ResolvedBody(FALSE, <<>>, Str("entity"))))),
    Response(TRUE, Str("OK"), "application/json",
             SubrequestsBody(Some([message |-> Str("Unable to resolve path")]),
                             Nothing)),
    Response(TRUE, Str("OK"), "application/json",
             SubrequestsBody(Some([message |-> Undefined]), Nothing)),
    Response(TRUE, Str("OK"), "application/json",
             SubrequestsBody(Some([message |-> Undefined]),
                             Some(ResolvedBody(TRUE,
                                    <<JsonApiError(Str("403"), Str("Forbidden"),
                                                   Str("No access"))>>,
                                    Undefined)))),
    Response(FALSE, Str("Bad Gateway"), "text/html", EmptyBody) }

(***************************************************************************)
(* MenuTreeBuilder.  A link is [id, parent]; a tree is {items?}: hasItems  *)
(* tells whether the object has an items property.                         *)
(***************************************************************************)
MenuLink(id, parent) == [id |-> id, parent |-> parent]

MenuTree(hasItems, items) == [hasItems |-> hasItems, items |-> items]

\* { ...link, ...tree }
MenuNode(link, tree) ==
  [id |-> link.id, parent |-> link.parent, hasItems |-> tree.hasItems,
   items |-> tree.items]

\* A builder that attaches nothing below the links of the parent asked for.
buildMenuTreeFlat(links, parent) ==
  IF links = <<>>
  THEN MenuTree(TRUE, <<>>)
  ELSE LET IsChild(link) == link.parent = parent
           children == SelectSeq(links, IsChild)
       IN  IF children # <<>>
           THEN MenuTree(TRUE, [i \in DOMAIN children |->
                                  MenuNode(children[i], MenuTree(FALSE, <<>>))])
           ELSE MenuTree(FALSE, <<>>)

\* A recursion that descends from every link of the list, not only from the
\* links of the parent asked for.
RECURSIVE RecursesForeverAnywhere(_, _, _)
RecursesForeverAnywhere(links, parent, building) ==
  \/ parent \in building
  \/ \E i \in DOMAIN links :
       /\ links[i].parent = parent \/ building = {}
       /\ RecursesForeverAnywhere(links, links[i].id, building \cup {parent})

\* Whether buildMenuTree(links, parent) calls itself again for a parent it is
\* already building, which no later call ends.
RECURSIVE RecursesForever(_, _, _)
RecursesForever(links, parent, building) ==
  \/ parent \in building
  \/ \E i \in DOMAIN links :
       /\ links[i].parent = parent
       /\ RecursesForever(links, links[i].id, building \cup {parent})

\* buildMenuTree(links, parent): { items: [] } for no links; the links whose
\* parent is `parent`, each with its own subtree; {} when there are none.
RECURSIVE buildMenuTree(_, _)
buildMenuTree(links, parent) ==
  IF links = <<>>
  THEN MenuTree(TRUE, <<>>)
  ELSE LET IsChild(link) == link.parent = parent
           children == SelectSeq(links, IsChild)
       IN  IF children # <<>>
           THEN MenuTree(TRUE, [i \in DOMAIN children |->
                                  MenuNode(children[i],
                                           buildMenuTree(links, children[i].id))])
           ELSE MenuTree(FALSE, <<>>)

\* The fetch of getMenu(name, options): the menu_items endpoint of the menu,
\* under the locale when it is given and is not the default one.
menuInit(name, options) ==
  LET localePrefix == IF /\ Truthy(options.locale)
                         /\ options.locale # options.defaultLocale
                      THEN <<"/">> \o options.locale
                      ELSE <<>>
  IN  FetchInit(Undefined,
                buildUrl(localePrefix \o config.apiPrefix
                           \o <<"/", "menu_items", "/">> \o name,
                         options.params),
                options.withAuth, Undefined, Undefined)

RangeErrorStack == Str("RangeError: Maximum call stack size exceeded")

\* getMenu after response.json(): the items, deserialized or not, and the
\* tree built from them.
menuResult(links, options) ==
  IF RecursesForever(links, "", {})
  THEN Throw(RangeErrorStack)
  ELSE ReturnValue(<<"menu",
                     IF options.deserialize THEN "deserialized" ELSE "raw",
                     links, buildMenuTree(links, "").items>>)

(***************************************************************************)
(* StaticPathBuilder.                                                      *)
(***************************************************************************)
\* s.replace(pattern, replacement) for a string pattern: the first
\* occurrence, wherever it is.
ReplaceFirst(s, pattern, replacement) ==
  LET at == IndexOf(s, pattern)
  IN  IF at = -1
      THEN s
      ELSE SubSeq(s, 1, at) \o replacement
             \o SubSeq(s, at + Len(pattern) + 1, Len(s))

\* s.split("/")
RECURSIVE Split(_)
Split(s) ==
  LET at == IndexOf(s, <<"/">>)
  IN  IF at = -1
      THEN <<s>>
      ELSE <<SubSeq(s, 1, at)>> \o Split(SubSeq(s, at + 2, Len(s)))

StaticPathOptions(prefix, locale) == [prefix |-> prefix, locale |-> locale]

StaticPath(slug, locale) == [slug |-> slug, locale |-> locale]

\* One entry of buildStaticPathsParamsFromPaths: _path.replace(/^\/|\/$/g, ""),
\* then, when a prefix is given, _path.replace(`${prefix}/`, "") with the
\* prefix's leading slash removed, then split("/").
staticPathParams(path, options) ==
  LET trimmed == StripTrailingSlash(StripLeadingSlash(path))
      prefix == StripLeadingSlash(options.prefix)
      stripped == IF Truthy(options.prefix)
                  THEN ReplaceFirst(trimmed, prefix \o <<"/">>, <<>>)
                  ELSE trimmed
  IN  StaticPath(Split(stripped),
                 IF Truthy(options.locale) THEN options.locale ELSE Undefined)

\* buildStaticPathsParamsFromPaths(paths, options)
buildStaticPathsParamsFromPaths(paths, options) ==
  [i \in DOMAIN paths |-> staticPathParams(paths[i], options)]

(***************************************************************************)
(* ResourceFetcher: endpoint resolution and collections.  A resource type  *)
(* is a string in pieces, <<"node", "--", "page">>.                        *)
(***************************************************************************)
\* s.split(sep) for a separator that is one piece.
RECURSIVE SplitOn(_, _)
SplitOn(s, sep) ==
  LET at == IndexOf(s, <<sep>>)
  IN  IF at = -1
      THEN <<s>>
      ELSE <<SubSeq(s, 1, at)>> \o SplitOn(SubSeq(s, at + 2, Len(s)), sep)

\* The pieces of a string as one piece.
RECURSIVE Text(_)
Text(s) == IF s = <<>> THEN "" ELSE Head(s) \o Text(Tail(s))

\* getEntryForResourceType with useDefaultResourceTypeEntry:
\* const [id, bundle] = type.split("--"), under baseUrl and apiPrefix.
defaultEntry(type, locale) ==
  LET parts == SplitOn(type, "--")
      id == parts[1]
      bundle == IF Len(parts) >= 2 THEN parts[2] ELSE Undefined
  IN  config.baseUrl \o config.apiPrefix \o <<"/">>
        \o (IF Truthy(locale)
            THEN locale \o <<"/">> \o id \o <<"/">> \o bundle
            ELSE id \o <<"/">> \o bundle)

\* getIndex: the URL of the index document.
indexUrl(locale) ==
  buildUrl(IF Truthy(locale)
           THEN <<"/">> \o locale \o config.apiPrefix
           ELSE config.apiPrefix, <<>>)

\* The index document: its response and its links, a function from the
\* types it lists to their href.
Index(response, links) == [response |-> response, links |-> links]

ResourceTypeNotFound(type) ==
  Str("Resource of type '") \o type \o Str("' not found.")

IndexFetchFailed(locale, message) ==
  Str("Failed to fetch JSON:API index at ") \o indexUrl(locale)
    \o Str(" - ") \o message

\* getResourceCollection passes the locale on only when it is not the
\* default locale.
entryLocale(locale, defaultLocale) ==
  IF locale # defaultLocale THEN locale ELSE Undefined

\* The request fetch(url) sends with no init but withAuth: false.
PlainRequest(url) ==
  Request(IF fetcher THEN "fetcher" ELSE "fetch", Undefined, url, Undefined,
          Undefined)

\* getResourceCollection once the entry point is known: the request for
\* the collection.
sendCollection(call, apiPath, params) ==
  Send([call EXCEPT !.pc = "collection"], PlainRequest(buildUrl(apiPath, params)))

\* getResourceCollection up to its first request: with the shortcut the
\* collection request, otherwise the index request.
startCollection(call, locale, params) ==
  IF config.useDefaultResourceTypeEntry
  THEN sendCollection(call, defaultEntry(call.type, locale), params)
  ELSE Send([call EXCEPT !.pc = "index"], PlainRequest(indexUrl(locale)))

\* An index resolution that takes the first link of the index, whatever its
\* type, and the default entry point when the index has none.
entryFromIndexAnyLink(type, locale, index, fetcherThrows) ==
  LET fetched == fetchResult(index.response, fetcherThrows)
  IN  IF fetched.kind = "throw"
      THEN Throw(IndexFetchFailed(locale, fetched.error))
      ELSE IF DOMAIN index.links = {}
           THEN ReturnValue(defaultEntry(type, locale))
           ELSE ReturnValue(index.links[CHOOSE t \in DOMAIN index.links : TRUE])

\* getEntryForResourceType after getIndex: what fetch throws is thrown on
\* as a failed index fetch; an index with no link for the type throws not
\* found; otherwise the link's href is the entry point.
entryFromIndex(type, locale, index, fetcherThrows) ==
  LET fetched == fetchResult(index.response, fetcherThrows)
  IN  IF fetched.kind = "throw"
      THEN Throw(IndexFetchFailed(locale, fetched.error))
      ELSE IF type \notin DOMAIN index.links
           THEN Throw(ResourceTypeNotFound(type))
           ELSE ReturnValue(index.links[type])

\* A collection of the fan-out after its index was answered.
indexResult(call, locale, params, index) ==
  LET entry == entryFromIndex(call.type, locale, index, FALSE)
  IN  IF entry.kind = "throw"
      THEN Done(call, entry)
      ELSE sendCollection(call, entry.value, params)

\* getEntryForResourceType for getResource and getResourceCollection: with
\* the shortcut the default entry point at once, otherwise the index request.
resourceFetch(call, authValue) ==
  LET apiPath == call.entry[1]
      url == buildUrl(IF call.op = "getResource"
                      THEN apiPath \o <<"/">> \o call.uuid
                      ELSE apiPath, call.options.params)
  IN  fetchSync([call EXCEPT !.init = FetchInit(Undefined, url,
                                                call.options.withAuth,
                                                Undefined, Undefined)],
                authValue)

resolveEntry(call, authValue) ==
  LET locale == entryLocale(call.options.locale, call.options.defaultLocale)
  IN  IF config.useDefaultResourceTypeEntry
      THEN resourceFetch([call EXCEPT !.entry =
                            Some(defaultEntry(call.type, locale))], authValue)
      ELSE Send([call EXCEPT !.pc = "index"], PlainRequest(indexUrl(locale)))

\* What the backend answers to a resource or collection request: the
\* response and the JSON document response.json() gives.
Answer(response, data) == [response |-> response, data |-> data]

\* A result that carries the Authorization header the request was sent with.
resourceResultWithHeader(call, answer, fetcherThrows) ==
  LET fetched == fetchResult(answer.response, fetcherThrows)
  IN  IF fetched.kind = "throw"
      THEN fetched
      ELSE ReturnValue(answer.data \o call.init.authorization)

\* getResource and getResourceCollection after their fetch: what fetch
\* throws is thrown on; otherwise the document, deserialized when asked for.
resourceResult(call, answer, fetcherThrows) ==
  LET fetched == fetchResult(answer.response, fetcherThrows)
  IN  IF fetched.kind = "throw"
      THEN fetched
      ELSE ReturnValue(IF call.options.deserialize
                       THEN deserialize(answer.data)
                       ELSE answer.data)

(***************************************************************************)
(* The preview handler.  The response object is its status code, what was  *)
(* sent as body, how often it was ended, the preview data set on it and    *)
(* the Location written to its head.                                       *)
(***************************************************************************)
\* process.env.DRUPAL_PREVIEW_SECRET
DRUPAL_PREVIEW_SECRET == Str("secret")

Res(statusCode, body, ended, previewData, location) ==
  [statusCode |-> statusCode, body |-> body, ended |-> ended,
   previewData |-> previewData, location |-> location]

NewRes == Res(200, Undefined, 0, Nothing, Nothing)

\* request.query
Query(slug, resourceVersion, secret, locale, defaultLocale) ==
  [slug |-> slug, resourceVersion |-> resourceVersion, secret |-> secret,
   locale |-> locale, defaultLocale |-> defaultLocale]

\* options of preview: not given; given without errorMessages; given with
\* errorMessages, whose secret and slug may be undefined.
PreviewOptions(given, hasErrorMessages, secret, slug) ==
  [given |-> given, hasErrorMessages |-> hasErrorMessages,
   secret |-> secret, slug |-> slug]

TypeErrorErrorMessages ==
  Str("TypeError: Cannot read properties of undefined")

TypeErrorChunk ==
  Str("TypeError [ERR_INVALID_ARG_TYPE]: The \"chunk\" argument must be of type string or an instance of Buffer")

\* options?.errorMessages.secret || fallback (key "secret" or "slug"): the
\* message, or the TypeError of reading a property of undefined.
errorMessage(options, key, fallback) ==
  IF ~options.given
  THEN ReturnValue(fallback)
  ELSE IF ~options.hasErrorMessages
       THEN Throw(TypeErrorErrorMessages)
       ELSE ReturnValue(IF Truthy(options[key]) THEN options[key] ELSE fallback)

\* response.status(code).json({ message })
statusJson(res, code, message) ==
  [res EXCEPT !.statusCode = code, !.body = [message |-> message],
              !.ended = @ + 1]

\* response.status(code).end({ message }): a response object that takes
\* only strings and buffers as chunk throws; one that takes anything sends.
statusEnd(res, code, message, endTakesObject) ==
  IF endTakesObject
  THEN [res EXCEPT !.statusCode = code, !.body = [message |-> message],
                   !.ended = @ + 1]
  ELSE [res EXCEPT !.statusCode = code]

\* The handler's state: the request, the options, the response object, and
\* whether response.end takes an object.
PreviewState(pc, query, options, res, endTakesObject) ==
  [pc |-> pc, query |-> query, options |-> options, res |-> res,
   endTakesObject |-> endTakesObject]

\* preview up to its await: 401 for a wrong secret, then 401 for a missing
\* slug; otherwise it goes on to getResourcePreviewUrl.
previewSync(state) ==
  LET query == state.query
      secretMessage == errorMessage(state.options, "secret",
                                    Str("Invalid preview secret."))
      slugMessage == errorMessage(state.options, "slug", Str("Invalid slug."))
  IN  IF query.secret # DRUPAL_PREVIEW_SECRET
      THEN IF secretMessage.kind = "throw"
           THEN [state |-> [state EXCEPT !.pc = "done"],
                 outcome |-> Some(secretMessage)]
           ELSE [state |-> [state EXCEPT !.pc = "done",
                              !.res = statusJson(@, 401, secretMessage.value)],
                 outcome |-> Some(Returned)]
      ELSE IF ~Truthy(query.slug)
           THEN IF slugMessage.kind = "throw"
                THEN [state |-> [state EXCEPT !.pc = "done"],
                      outcome |-> Some(slugMessage)]
                ELSE [state |-> [state EXCEPT !.pc = "done",
                                   !.res = statusEnd(@, 401, slugMessage.value,
                                                     state.endTakesObject)],
                      outcome |-> IF state.endTakesObject
                                  THEN Some(Returned)
                                  ELSE Some(Throw(TypeErrorChunk))]
           ELSE [state |-> [state EXCEPT !.pc = "resolving"],
                 outcome |-> Nothing]

\* The options preview passes to getResourcePreviewUrl, and those it passes
\* on to getResourceByPath with withAuth: true.
previewPathOptions(query) ==
  LET localized == Truthy(query.locale) /\ Truthy(query.defaultLocale)
  IN  PathOptions(IF localized THEN query.locale ELSE Undefined,
                  IF localized THEN query.defaultLocale ELSE Undefined,
                  TRUE, query.resourceVersion # Undefined, TRUE, <<>>)

\* The path attribute of the entity a path resolves to, if it has one.
EntityPath(alias, langcode, defaultLangcode) ==
  [alias |-> alias, langcode |-> langcode, default_langcode |-> defaultLangcode]

PathAttributeMissing ==
  Str("The path attribute is missing for entity type node--page")

\* getResourcePreviewUrl after getResourceByPath: null for no entity, an
\* error for an entity without path, else the alias, with the langcode in
\* front unless it is the default langcode.
getResourcePreviewUrl(entity, path) ==
  IF entity = Null
  THEN ReturnValue(Null)
  ELSE IF path = Nothing
       THEN Throw(PathAttributeMissing)
       ELSE ReturnValue(IF path[1].default_langcode
                        THEN path[1].alias
                        ELSE <<"/">> \o path[1].langcode \o path[1].alias)

\* preview after getResourcePreviewUrl returned url: 404 for no url, and
\* then, whatever the url, the preview data, the redirect and end().
previewRedirect(state, url) ==
  LET slugMessage == errorMessage(state.options, "slug", Str("Invalid slug"))
      notFound == IF url # Null
                  THEN [res |-> state.res, thrown |-> Nothing]
                  ELSE IF slugMessage.kind = "throw"
                       THEN [res |-> state.res, thrown |-> Some(slugMessage)]
                       ELSE [res |-> statusEnd(state.res, 404, slugMessage.value,
                                               state.endTakesObject),
                             thrown |-> IF state.endTakesObject
                                        THEN Nothing
                                        ELSE Some(Throw(TypeErrorChunk))]
  IN  IF notFound.thrown # Nothing
      THEN [state |-> [state EXCEPT !.pc = "done", !.res = notFound.res],
            outcome |-> notFound.thrown]
      ELSE [state |-> [state EXCEPT !.pc = "done", !.res =
                         [notFound.res EXCEPT
                            !.previewData = Some(state.query.resourceVersion),
                            !.statusCode = 307,
                            !.location = Some(url),
                            !.ended = @ + 1]],
            outcome |-> Some(Returned)]

(***************************************************************************)
(* StaticPathBuilder over a context.  A resource is its path alias, Null   *)
(* when it has none.                                                       *)
(***************************************************************************)
Resource(alias) == [alias |-> alias]

TypeErrorReplace ==
  Str("TypeError: Cannot read properties of null (reading 'replace')")

\* buildStaticPathsFromResources: the alias of each resource, "/" for the
\* front page; [] for no paths, else buildStaticPathsParamsFromPaths, whose
\* _path.replace throws for a path that is not a string.
buildStaticPathsFromResources(resources, options) ==
  LET paths == [i \in DOMAIN resources |->
                  IF resources[i].alias = config.frontPage
                  THEN <<"/">>
                  ELSE resources[i].alias]
  IN  IF paths = <<>>
      THEN [thrown |-> FALSE, paths |-> <<>>]
      ELSE IF \E i \in DOMAIN paths : paths[i] \in {Null, Undefined}
           THEN [thrown |-> TRUE, paths |-> <<>>]
           ELSE [thrown |-> FALSE,
                 paths |-> buildStaticPathsParamsFromPaths(paths, options)]

\* The sparse fieldset of a type ahead of the caller's params.
staticPathsParams(type, params) ==
  << <<"fields[" \o Text(type) \o "]", Str("path")>> >> \o params

\* One getResourceCollection of the fan-out.
Collection(type, locale) ==
  [type |-> type, locale |-> locale, pc |-> "start", requests |-> <<>>,
   resources |-> Nothing, outcome |-> Nothing]

\* types.map over locales.map: one collection per type when the context has
\* no locales, else one per type and locale, types first.
collections(types, locales) ==
  IF locales = <<>>
  THEN [i \in DOMAIN types |-> Collection(types[i], Undefined)]
  ELSE [k \in 1..(Len(types) * Len(locales)) |->
          Collection(types[((k - 1) \div Len(locales)) + 1],
                     locales[((k - 1) % Len(locales)) + 1])]

\* array.flat()
RECURSIVE Flat(_)
Flat(arrays) == IF arrays = <<>> THEN <<>> ELSE Head(arrays) \o Flat(Tail(arrays))

\* A join that hands out the paths as the collections finish.
promiseAllAsFinished(settledAlready, subs, i) ==
  IF subs[i].outcome[1].kind = "throw"
  THEN IF settledAlready = Nothing THEN Some(subs[i].outcome[1]) ELSE settledAlready
  ELSE LET before == IF settledAlready = Nothing
                     THEN <<>>
                     ELSE settledAlready[1].value
       IN  Some(ReturnValue(before \o subs[i].outcome[1].value))

\* A join that leaves out the collections that failed.
promiseAllSettled(settledAlready, subs, i) ==
  IF \A k \in DOMAIN subs : subs[k].pc = "done"
  THEN Some(ReturnValue(Flat([k \in DOMAIN subs |->
                                IF subs[k].outcome[1].kind = "return"
                                THEN subs[k].outcome[1].value
                                ELSE <<>>])))
  ELSE Nothing

\* Promise.all(...) then flat(), when collection i has just settled: the
\* first rejection settles the join; it fulfils when every collection has,
\* with their values in the order of the array.
promiseAll(settledAlready, subs, i) ==
  IF settledAlready # Nothing
  THEN settledAlready
  ELSE IF subs[i].outcome[1].kind = "throw"
       THEN Some(subs[i].outcome[1])
       ELSE IF \A k \in DOMAIN subs :
                 subs[k].pc = "done" /\ subs[k].outcome[1].kind = "return"
            THEN Some(ReturnValue(Flat([k \in DOMAIN subs |->
                                          subs[k].outcome[1].value])))
            ELSE Nothing

\* The getStaticPathsFromContext call: its arguments, collections and outcome.
StaticPathsCall(pc, types, locales, defaultLocale, prefix, subs) ==
  [pc |-> pc, types |-> types, locales |-> locales,
   defaultLocale |-> defaultLocale, prefix |-> prefix, subs |-> subs,
   outcome |-> Nothing, outOfOrder |-> FALSE]

\* No static-paths call, no preview request, nothing taken by the caller yet.
NoStaticPaths == StaticPathsCall("idle", <<>>, <<>>, Undefined, Undefined, <<>>)

NoPreview ==
  PreviewState("idle", Query(Undefined, Undefined, Undefined, Undefined, Undefined),
               PreviewOptions(FALSE, FALSE, Undefined, Undefined), NewRes, FALSE)

FlowIdle ==
  /\ staticPaths = NoStaticPaths
  /\ preview = NoPreview
  /\ settled = <<>>

(***************************************************************************)
(* The client's operations, step by step.                                  *)
(***************************************************************************)
ClientUnchanged == UNCHANGED <<constructed, _auth, fetcher>>

CacheUnchanged == UNCHANGED <<_token, tokenExpiresOn, lastStored>>

\* What the fetches of the step leave of the client's configuration.
ConfigAfterFetch ==
  config' = [config EXCEPT !._headers = headersAfterFetch(@, calls, calls')]

\* A caller calls getAccessToken().
GetAccessToken(c) ==
  /\ constructed
  /\ Free(c)
  /\ LET call == NewCall("getAccessToken")
         r == getAccessTokenSync
     IN  calls' = [calls EXCEPT ![c] =
           IF r.kind = "await"
           THEN Send([call EXCEPT !.pc = "tokenResponse"], TokenRequest)
           ELSE Done(call, r)]
  /\ ClientUnchanged /\ CacheUnchanged
  /\ UNCHANGED <<now, issued, pureVars, config, flowVars>>

\* A caller calls fetch(input, init).
Fetch(c) ==
  /\ constructed
  /\ Free(c)
  /\ \E withAuth \in BOOLEAN, authorization \in {Undefined, Str("Custom")},
        authValue \in CallbackValues :
       calls' = [calls EXCEPT ![c] =
         fetchSync([NewCall("fetch") EXCEPT !.init =
                      FetchInit(Str("GET"), Str("/resource"), withAuth,
                                authorization, Undefined)],
                   authValue)]
  /\ ClientUnchanged /\ CacheUnchanged
  /\ ConfigAfterFetch
  /\ UNCHANGED <<now, issued, pureVars, flowVars>>

\* The token endpoint answers: not ok throws the status text; ok goes on to
\* response.json().
TokenResponse(c) ==
  /\ calls[c].pc = "tokenResponse"
  /\ \E response \in TokenResponses :
       /\ calls' = [calls EXCEPT ![c] =
            getAccessTokenResponse([@ EXCEPT !.tokenResponse = Some(response)],
                                   response)]
       /\ issued' = issued \cup {response.token[i] : i \in DOMAIN response.token}
  /\ ClientUnchanged /\ CacheUnchanged
  /\ UNCHANGED <<now, pureVars, config, flowVars>>

\* response.json() resolved: this.token = result; return result.
TokenJson(c) ==
  /\ calls[c].pc = "tokenJson"
  /\ LET token == calls[c].tokenResponse[1].token[1]
     IN  /\ SetToken(token)
         /\ lastStored' = Some([token |-> token, at |-> now])
         /\ calls' = [calls EXCEPT ![c] =
              IF @.op = "getAccessToken"
              THEN Done(@, ReturnToken(token))
              ELSE [@ EXCEPT !.pc = "authResolved",
                             !.tokenOutcome = Some(ReturnToken(token))]]
  /\ ClientUnchanged
  /\ UNCHANGED <<now, issued, pureVars, config, flowVars>>

\* fetch after `await this.getAccessToken()`: the Bearer header, then the
\* dispatch.
AuthResolved(c) ==
  /\ calls[c].pc = "authResolved"
  /\ LET token == calls[c].tokenOutcome[1].token[1]
     IN  calls' = [calls EXCEPT ![c] =
           Dispatch([@ EXCEPT !.init.authorization =
                                Str("Bearer ") \o Str(token.access_token)])]
  /\ ClientUnchanged /\ CacheUnchanged
  /\ ConfigAfterFetch
  /\ UNCHANGED <<now, issued, pureVars, flowVars>>

\* The transport answers a fetch.
TransportResponse(c) ==
  /\ calls[c].pc = "transport"
  /\ calls[c].op = "fetch"
  /\ \E response \in TransportResponses, fetcherThrows \in BOOLEAN :
       calls' = [calls EXCEPT ![c] =
         Done([@ EXCEPT !.received = IF fetcher /\ fetcherThrows
                                     THEN Nothing
                                     ELSE Some(response)],
              fetchResult(response, fetcherThrows))]
  /\ ClientUnchanged /\ CacheUnchanged
  /\ UNCHANGED <<now, issued, pureVars, config, flowVars>>

\* The paths, locales and params callers pass to getResourceByPath.
Paths ==
  { <<>>, <<"/">>, <<"/", "a">>, <<"a">>, <<"/", "/", "a">>,
    <<"/", "e", "s", "/", "a">>, <<"/", "e", "s", "a">> }

Locales == {Undefined, <<"e", "n">>, <<"e", "s">>}

DefaultLocales == {Undefined, <<"e", "n">>}

ParamsGiven ==
  { <<>>, <<<<"resourceVersion", Str("id:7")>>>>,
    <<<<"include", Str("field_image")>>>> }

\* A caller calls getResourceByPath(path, options): null for an empty path,
\* otherwise one fetch of the subrequests endpoint.
GetResourceByPath(c) ==
  /\ constructed
  /\ Free(c)
  /\ \E path \in Paths, locale \in Locales, defaultLocale \in DefaultLocales,
        withAuth \in BOOLEAN, isVersionable \in BOOLEAN,
        deserializes \in BOOLEAN, params \in ParamsGiven,
        authValue \in CallbackValues :
       LET options == PathOptions(locale, defaultLocale, withAuth,
                                  isVersionable, deserializes, params)
           call == [NewCall("getResourceByPath") EXCEPT !.path = path,
                                                        !.options = options]
       IN  calls' = [calls EXCEPT ![c] =
             IF path = <<>>
             THEN Done(call, ReturnValue(Null))
             ELSE fetchSync([call EXCEPT !.init = subrequestsInit(path, options)],
                            authValue)]
  /\ ClientUnchanged /\ CacheUnchanged
  /\ ConfigAfterFetch
  /\ UNCHANGED <<now, issued, pureVars, flowVars>>

\* The transport answers the fetch of getResourceByPath: what fetch throws
\* is thrown on; what it returns is read with response.json().
SubrequestsResponse(c) ==
  /\ calls[c].pc = "transport"
  /\ calls[c].op \in {"getResourceByPath", "getResourceFromContext"}
  /\ \E response \in SubrequestsResponses, fetcherThrows \in BOOLEAN :
       LET fetched == fetchResult(response, fetcherThrows)
       IN  calls' = [calls EXCEPT ![c] =
             Done([@ EXCEPT !.received = IF fetcher /\ fetcherThrows
                                         THEN Nothing
                                         ELSE Some(response)],
                  IF fetched.kind = "throw"
                  THEN fetched
                  ELSE getResourceByPathResult(response.body, @.options))]
  /\ ClientUnchanged /\ CacheUnchanged
  /\ UNCHANGED <<now, issued, pureVars, config, flowVars>>

\* The types, contexts and options getResourceFromContext is called with.
MediaImage == <<"media", "--", "image">>

Contexts ==
  {Context(<<Str("a")>>, locale, <<"e", "n">>, isPreview, resourceVersion,
           isVersionable, FALSE, params) :
     locale \in {Undefined, <<"e", "s">>}, isPreview \in BOOLEAN,
     resourceVersion \in {Undefined, <<>>, Str("id:5")},
     isVersionable \in {"absent", "true", "false"},
     params \in ParamsGiven}

\* A caller calls getResourceFromContext(type, context, options): the path
\* of the context, then getResourceByPath.
GetResourceFromContext(c) ==
  /\ constructed
  /\ Free(c)
  /\ \E type \in {<<"node", "--", "page">>, MediaImage},
        context \in Contexts, authValue \in CallbackValues :
       LET path == getPathFromContext(context.slug, context.locale,
                                      context.defaultLocale, <<"/">>)
           options == contextPathOptions(type, context)
           call == [NewCall("getResourceFromContext") EXCEPT
                      !.type = type, !.context = Some(context),
                      !.path = path, !.options = options]
       IN  calls' = [calls EXCEPT ![c] =
             IF path = <<>>
             THEN Done(call, ReturnValue(Null))
             ELSE fetchSync([call EXCEPT !.init = subrequestsInit(path, options)],
                            authValue)]
  /\ ClientUnchanged /\ CacheUnchanged
  /\ ConfigAfterFetch
  /\ UNCHANGED <<now, issued, pureVars, flowVars>>

\* The caller has the outcome of its call and may call again.
Settle(c) ==
  /\ calls[c].pc = "done"
  /\ calls' = [calls EXCEPT ![c] = NewCall("none")]
  /\ ClientUnchanged /\ CacheUnchanged
  /\ UNCHANGED <<now, issued, pureVars, config, flowVars>>

\* Time passes.
Tick ==
  /\ now < MaxTicks * MsPerSecond
  /\ now' = now + MsPerSecond
  /\ ClientUnchanged /\ CacheUnchanged
  /\ UNCHANGED <<calls, issued, pureVars, config, flowVars>>

(***************************************************************************)
(* getResource and getResourceCollection.                                  *)
(***************************************************************************)
MaxSettled == 2

MaxJoined == 2

NodePage == <<"node", "--", "page">>

NodeArticle == <<"node", "--", "article">>

\* What a backend's index lists for a type and locale; an index may lack
\* the type.
IndexHref(type, locale) ==
  baseUrl \o (IF Truthy(locale) THEN <<"/">> \o locale ELSE <<>>)
    \o DEFAULT_API_PREFIX \o <<"/">> \o SplitOn(type, "--")[1]
    \o <<"/">> \o SplitOn(type, "--")[2]

Indexes(type, locale) ==
  {Index(OkResponse, [t \in {type} |-> IndexHref(type, locale)]),
   Index(OkResponse, [t \in {} |-> <<>>]),
   Index(CHOOSE r \in FailedResponses : r.contentType = "text/html",
         [t \in {} |-> <<>>])}

Answers ==
  {Answer(OkResponse, <<"r1", "r2">>),
   Answer(CHOOSE r \in FailedResponses : r.contentType = "application/json",
          <<"error">>)}

\* The options of getResource and getResourceCollection, defaults filled in.
ResourceOptions ==
  {PathOptions(locale, defaultLocale, withAuth, FALSE, deserializes, <<>>) :
     locale \in {Undefined, <<"e", "s">>}, defaultLocale \in {Undefined, <<"e", "n">>},
     withAuth \in BOOLEAN, deserializes \in BOOLEAN}

\* A caller calls getResourceCollection(type, options).
GetResourceCollection(c) ==
  /\ constructed
  /\ Free(c)
  /\ Len(settled) < MaxSettled
  /\ \E type \in {NodePage, NodeArticle}, options \in ResourceOptions,
        authValue \in CallbackValues :
       calls' = [calls EXCEPT ![c] =
         resolveEntry([NewCall("getResourceCollection") EXCEPT
                         !.type = type, !.options = options], authValue)]
  /\ ClientUnchanged /\ CacheUnchanged
  /\ ConfigAfterFetch
  /\ UNCHANGED <<now, issued, pureVars, flowVars>>

\* A caller calls getResource(type, uuid, options).
GetResource(c) ==
  /\ constructed
  /\ Free(c)
  /\ Len(settled) < MaxSettled
  /\ \E type \in {NodePage, NodeArticle}, options \in ResourceOptions,
        authValue \in CallbackValues :
       calls' = [calls EXCEPT ![c] =
         resolveEntry([NewCall("getResource") EXCEPT
                         !.type = type, !.uuid = Str("uuid-1"),
                         !.options = options], authValue)]
  /\ ClientUnchanged /\ CacheUnchanged
  /\ ConfigAfterFetch
  /\ UNCHANGED <<now, issued, pureVars, flowVars>>

\* The index request of getEntryForResourceType is answered.
IndexResponse(c) ==
  /\ calls[c].pc = "index"
  /\ LET call == calls[c]
         locale == entryLocale(call.options.locale, call.options.defaultLocale)
     IN  \E index \in Indexes(call.type, locale), fetcherThrows \in BOOLEAN,
            authValue \in CallbackValues :
           LET entry == entryFromIndex(call.type, locale, index, fetcherThrows)
               indexed == [call EXCEPT !.index = IF fetcher /\ fetcherThrows
                                                 THEN Nothing
                                                 ELSE Some(index)]
           IN  calls' = [calls EXCEPT ![c] =
                 IF entry.kind = "throw"
                 THEN Done(indexed, entry)
                 ELSE resourceFetch([indexed EXCEPT !.entry = Some(entry.value)],
                                    authValue)]
  /\ ClientUnchanged /\ CacheUnchanged
  /\ ConfigAfterFetch
  /\ UNCHANGED <<now, issued, pureVars, flowVars>>

\* The resource or collection request is answered.
ResourceResponse(c) ==
  /\ calls[c].pc = "transport"
  /\ calls[c].op \in {"getResource", "getResourceCollection"}
  /\ \E answer \in Answers, fetcherThrows \in BOOLEAN :
       calls' = [calls EXCEPT ![c] =
         Done([@ EXCEPT !.received = IF fetcher /\ fetcherThrows
                                     THEN Nothing
                                     ELSE Some(answer.response),
                        !.json = IF fetcher /\ fetcherThrows
                                 THEN Nothing
                                 ELSE Some(answer.data)],
              resourceResult(@, answer, fetcherThrows))]
  /\ ClientUnchanged /\ CacheUnchanged
  /\ UNCHANGED <<now, issued, pureVars, config, flowVars>>

\* The caller takes the outcome of its call; the call is kept as history.
Take(c) ==
  /\ calls[c].pc = "done"
  /\ Len(settled) < MaxSettled
  /\ settled' = Append(settled, calls[c])
  /\ calls' = [calls EXCEPT ![c] = NewCall("none")]
  /\ ClientUnchanged /\ CacheUnchanged
  /\ UNCHANGED <<now, issued, pureVars, config, staticPaths, preview>>

\* The menus the backend has: none, a root with a child, a link below a
\* link that is not there.
MenuAnswers ==
  { <<>>, <<MenuLink("a", ""), MenuLink("b", "a")>>,
    <<MenuLink("a", ""), MenuLink("c", "x")>> }

\* A caller calls getMenu(name, options).
GetMenu(c) ==
  /\ constructed
  /\ Free(c)
  /\ \E locale \in Locales, withAuth \in BOOLEAN, deserializes \in BOOLEAN,
        authValue \in CallbackValues :
       LET options == PathOptions(locale, <<"e", "n">>, withAuth, FALSE,
                                  deserializes, <<>>)
           call == [NewCall("getMenu") EXCEPT !.path = Str("main"),
                                              !.options = options]
       IN  calls' = [calls EXCEPT ![c] =
             fetchSync([call EXCEPT !.init = menuInit(Str("main"), options)],
                       authValue)]
  /\ ClientUnchanged /\ CacheUnchanged
  /\ ConfigAfterFetch
  /\ UNCHANGED <<now, issued, pureVars, flowVars>>

\* The transport answers the fetch of getMenu.
MenuResponse(c) ==
  /\ calls[c].pc = "transport"
  /\ calls[c].op = "getMenu"
  /\ \E response \in TransportResponses, fetcherThrows \in BOOLEAN,
        links \in MenuAnswers :
       LET fetched == fetchResult(response, fetcherThrows)
       IN  calls' = [calls EXCEPT ![c] =
             Done([@ EXCEPT !.received = IF fetcher /\ fetcherThrows
                                         THEN Nothing
                                         ELSE Some(response)],
                  IF fetched.kind = "throw"
                  THEN fetched
                  ELSE menuResult(IF response.ok THEN links ELSE <<>>,
                                  @.options))]
  /\ ClientUnchanged /\ CacheUnchanged
  /\ UNCHANGED <<now, issued, pureVars, config, flowVars>>

\* The requests the preview route gets and the options its handler passes.
Queries ==
  {Query(slug, resourceVersion, secret, locale, locale) :
     slug \in {Undefined, <<"/", "a">>},
     resourceVersion \in {Undefined, Str("id:1")},
     secret \in {DRUPAL_PREVIEW_SECRET, Str("guess"), Undefined},
     locale \in {Undefined, <<"e", "n">>}}

PreviewOptionsGiven ==
  {PreviewOptions(FALSE, FALSE, Undefined, Undefined),
   PreviewOptions(TRUE, FALSE, Undefined, Undefined),
   PreviewOptions(TRUE, TRUE, Undefined, Undefined),
   PreviewOptions(TRUE, TRUE, Str("Bad secret"), Str("Bad slug"))}

\* The preview route is requested: preview(request, response, options).
Preview(c) ==
  /\ constructed
  /\ Free(c)
  /\ preview.pc = "idle"
  /\ \E query \in Queries, options \in PreviewOptionsGiven,
        endTakesObject \in BOOLEAN, authValue \in CallbackValues :
       LET started == previewSync(PreviewState("start", query, options, NewRes,
                                               endTakesObject))
           pathOptions == previewPathOptions(query)
           call == [NewCall("preview") EXCEPT !.path = query.slug,
                                              !.options = pathOptions]
       IN  /\ preview' = started.state
           /\ calls' = [calls EXCEPT ![c] =
                IF started.outcome # Nothing
                THEN Done(call, started.outcome[1])
                ELSE fetchSync([call EXCEPT !.init =
                                  subrequestsInit(query.slug, pathOptions)],
                               authValue)]
  /\ ClientUnchanged /\ CacheUnchanged
  /\ ConfigAfterFetch
  /\ UNCHANGED <<now, issued, pureVars, staticPaths, settled>>

\* The resolved entities: with a default-language path, with a translated
\* path, and without a path attribute.
EntityPaths ==
  {Nothing, Some(EntityPath(<<"/", "a">>, <<"e", "n">>, TRUE)),
   Some(EntityPath(<<"/", "a">>, <<"e", "s">>, FALSE))}

\* The fetch of getResourceByPath inside preview is answered, or fetch
\* threw before sending it.
PreviewResponse(c) ==
  /\ calls[c].op = "preview"
  /\ calls[c].pc = "transport"
  /\ \E response \in SubrequestsResponses, fetcherThrows \in BOOLEAN,
        path \in EntityPaths :
       LET fetched == fetchResult(response, fetcherThrows)
           entity == IF fetched.kind = "throw"
                     THEN fetched
                     ELSE getResourceByPathResult(response.body, calls[c].options)
           url == IF entity.kind = "throw"
                  THEN entity
                  ELSE getResourcePreviewUrl(entity.value, path)
           redirected == previewRedirect(preview, url.value)
           received == [calls[c] EXCEPT !.received = IF fetcher /\ fetcherThrows
                                                     THEN Nothing
                                                     ELSE Some(response)]
       IN  IF url.kind = "throw"
           THEN /\ calls' = [calls EXCEPT ![c] = Done(received, url)]
                /\ preview' = [preview EXCEPT !.pc = "done"]
           ELSE /\ calls' = [calls EXCEPT ![c] =
                     Done(received, redirected.outcome[1])]
                /\ preview' = redirected.state
  /\ ClientUnchanged /\ CacheUnchanged
  /\ UNCHANGED <<now, issued, pureVars, config, staticPaths, settled>>

\* The handler is done with the request; the next one gets a new response.
PreviewSettle(c) ==
  /\ calls[c].op = "preview"
  /\ calls[c].pc = "done"
  /\ calls' = [calls EXCEPT ![c] = NewCall("none")]
  /\ preview' = NoPreview
  /\ ClientUnchanged /\ CacheUnchanged
  /\ UNCHANGED <<now, issued, pureVars, config, staticPaths, settled>>

\* The same call again: getResourceCollection with the arguments of the
\* call before, if there was one.
GetResourceCollectionAgain(c) ==
  /\ GetResourceCollection(c)
  /\ \A k \in DOMAIN settled :
       /\ calls'[c].type = settled[k].type
       /\ calls'[c].options = settled[k].options

\* A backend whose state does not change: a request it has answered before
\* gets the same answer, and the token endpoint grants or refuses as before.
StableTokenResponse(c) ==
  /\ TokenResponse(c)
  /\ \A k \in DOMAIN settled :
       settled[k].tokenResponse # Nothing =>
         /\ calls'[c].tokenResponse[1].ok = settled[k].tokenResponse[1].ok
         /\ calls'[c].tokenResponse[1].statusText
              = settled[k].tokenResponse[1].statusText

StableIndexResponse(c) ==
  /\ IndexResponse(c)
  /\ \A k \in DOMAIN settled : calls'[c].index = settled[k].index

StableResourceResponse(c) ==
  /\ ResourceResponse(c)
  /\ \A k \in DOMAIN settled :
       ( /\ settled[k].requests # <<>>
         /\ settled[k].requests[Len(settled[k].requests)].url = calls[c].init.url
         /\ settled[k].requests[Len(settled[k].requests)].to \in {"fetch", "fetcher"}
         /\ settled[k].index = calls[c].index ) =>
           /\ calls'[c].received = settled[k].received
           /\ calls'[c].json = settled[k].json

(***************************************************************************)
(* getStaticPathsFromContext: the fan-out and its join.                    *)
(***************************************************************************)
MaxFetches == 4

\* types: one type as a string, or an array of types.
TypesGiven == {NodePage, <<NodePage>>, <<NodePage, NodeArticle>>}

\* context.locales, undefined as <<>>; context.defaultLocale is "en".
LocalesGiven ==
  {<<>>, <<(<<"e", "n">>)>>, <<(<<"e", "n">>), (<<"e", "s">>)>>,
   <<(<<"e", "s">>), (<<"e", "n">>), (<<"f", "r">>)>>}

\* The collections a backend answers with.
ResourceLists ==
  {<<Resource(frontPage)>>,
   <<Resource(<<"/", "a", "/", "b">>), Resource(<<"/", "b">>)>>,
   <<Resource(<<"/", "b">>), Resource(Null)>>}

\* typeof types === "string" ? [types] : types
typesArray(types) == IF types \in {NodePage, NodeArticle} THEN <<types>> ELSE types

\* A caller calls getStaticPathsFromContext(types, context, options): every
\* getResourceCollection of the fan-out runs up to its first request.
GetStaticPathsFromContext ==
  /\ constructed
  /\ staticPaths.pc = "idle"
  /\ \E types \in TypesGiven, locales \in LocalesGiven,
        prefix \in {Undefined, <<"/", "b">>} :
       LET subs == collections(typesArray(types), locales)
           defaultLocale == IF locales = <<>> THEN Undefined ELSE <<"e", "n">>
           \* options = { prefix: "/", ...options }
           call == StaticPathsCall("pending", typesArray(types), locales,
                                   defaultLocale,
                                   IF prefix = Undefined THEN <<"/">> ELSE prefix,
                                   subs)
       IN  /\ Len(subs) <= MaxFetches
           /\ staticPaths' = [call EXCEPT !.subs =
                [i \in DOMAIN subs |->
                   startCollection(subs[i],
                                   entryLocale(subs[i].locale, defaultLocale),
                                   staticPathsParams(subs[i].type, <<>>))]]
  /\ UNCHANGED <<clientVars, pureVars, config, preview, settled>>

\* Collection i has settled: the join takes it.
joined(call, subs, i) ==
  [call EXCEPT !.subs = subs,
               !.outcome = promiseAll(call.outcome, subs, i),
               !.outOfOrder = @ \/ \E k \in 1..(i - 1) : subs[k].pc # "done"]

\* The index of collection i is answered.
StaticPathsIndexResponse(i) ==
  /\ i \in DOMAIN staticPaths.subs
  /\ staticPaths.subs[i].pc = "index"
  /\ LET sub == staticPaths.subs[i]
         locale == entryLocale(sub.locale, staticPaths.defaultLocale)
     IN  \E index \in Indexes(sub.type, locale) :
           LET after == indexResult(sub, locale,
                                    staticPathsParams(sub.type, <<>>), index)
               subs == [staticPaths.subs EXCEPT ![i] = after]
           IN  staticPaths' = IF after.pc = "done"
                              THEN joined(staticPaths, subs, i)
                              ELSE [staticPaths EXCEPT !.subs = subs]
  /\ UNCHANGED <<clientVars, pureVars, config, preview, settled>>

\* The collection request of collection i is answered; its resources
\* become static paths, tagged with the locale of the collection.
StaticPathsCollectionResponse(i) ==
  /\ i \in DOMAIN staticPaths.subs
  /\ staticPaths.subs[i].pc = "collection"
  /\ LET sub == staticPaths.subs[i]
     IN  \E response \in {OkResponse}
                            \cup {r \in FailedResponses :
                                    r.contentType = "application/json"},
            resources \in ResourceLists :
           LET built == buildStaticPathsFromResources(resources,
                          StaticPathOptions(staticPaths.prefix, sub.locale))
               after == [Done(sub, IF ~response.ok
                                   THEN Throw(formatErrorResponse(response))
                                   ELSE IF built.thrown
                                        THEN Throw(TypeErrorReplace)
                                        ELSE ReturnValue(built.paths))
                           EXCEPT !.resources =
                             IF response.ok THEN Some(resources) ELSE Nothing]
           IN  staticPaths' = joined(staticPaths,
                                      [staticPaths.subs EXCEPT ![i] = after], i)
  /\ UNCHANGED <<clientVars, pureVars, config, preview, settled>>

\* Every collection has settled and the caller has the outcome of the call.
StaticPathsSettle ==
  /\ staticPaths.pc = "pending"
  /\ staticPaths.outcome # Nothing
  /\ \A i \in DOMAIN staticPaths.subs : staticPaths.subs[i].pc = "done"
  /\ staticPaths' = NoStaticPaths
  /\ UNCHANGED <<clientVars, pureVars, config, preview, settled>>

(***************************************************************************)
(* The client: construction, then any interleaving of calls.               *)
(***************************************************************************)
PureIdle == fn = "none" /\ arg = <<>> /\ result = <<>>

\* constructor: set auth may throw; no token is cached.
Init ==
  /\ \E auth \in AuthOptions, customFetcher \in BOOLEAN :
       /\ constructed = ~SetAuthThrows(auth)
       /\ _auth = IF SetAuthThrows(auth) THEN NoAuth ELSE SetAuth(auth)
       /\ fetcher = customFetcher
  /\ _token = Nothing
  /\ tokenExpiresOn = Nothing
  /\ now = 0
  /\ calls = [c \in Calls |-> NewCall("none")]
  /\ issued = {}
  /\ lastStored = Nothing
  /\ PureIdle
  /\ config = Config(FALSE)
  /\ FlowIdle

\* Any number of callers call getAccessToken concurrently.
Next ==
  \/ \E c \in Calls : GetAccessToken(c)
  \/ \E c \in Calls : TokenResponse(c)
  \/ \E c \in Calls : TokenJson(c)
  \/ \E c \in Calls : Settle(c)
  \/ Tick

Spec == Init /\ [][Next]_vars

\* One caller uses the request executor, one call after the other.
Caller == CHOOSE c \in Calls : TRUE

NextFetch ==
  \/ GetAccessToken(Caller)
  \/ Fetch(Caller)
  \/ TokenResponse(Caller)
  \/ TokenJson(Caller)
  \/ AuthResolved(Caller)
  \/ TransportResponse(Caller)
  \/ Settle(Caller)
  \/ Tick

SpecFetch == Init /\ [][NextFetch]_vars

\* One caller resolves paths, one call after the other.
NextPath ==
  \/ GetResourceByPath(Caller)
  \/ TokenResponse(Caller)
  \/ TokenJson(Caller)
  \/ AuthResolved(Caller)
  \/ SubrequestsResponse(Caller)
  \/ Settle(Caller)

SpecPath == Init /\ [][NextPath]_vars

\* One caller resolves the resources of contexts and of paths.
NextFromContext ==
  \/ GetResourceFromContext(Caller)
  \/ /\ GetResourceByPath(Caller)
     /\ calls'[Caller].path = <<"/", "a">>
     /\ calls'[Caller].options.locale = Undefined
     /\ calls'[Caller].options.defaultLocale = Undefined
  \/ TokenResponse(Caller)
  \/ TokenJson(Caller)
  \/ AuthResolved(Caller)
  \/ SubrequestsResponse(Caller)
  \/ Settle(Caller)

SpecFromContext == Init /\ [][NextFromContext]_vars

\* A client with no auth and the default transport, with or without the
\* default-entry-point shortcut.
InitContext ==
  /\ constructed = TRUE
  /\ _auth = NoAuth
  /\ fetcher = FALSE
  /\ _token = Nothing
  /\ tokenExpiresOn = Nothing
  /\ now = 0
  /\ calls = [c \in Calls |-> NewCall("none")]
  /\ issued = {}
  /\ lastStored = Nothing
  /\ PureIdle
  /\ \E useDefaultResourceTypeEntry \in BOOLEAN :
       config = Config(useDefaultResourceTypeEntry)
  /\ FlowIdle

\* One caller builds static paths, one call after the other; the fetches
\* of a call are answered in any order.
NextStaticPaths ==
  \/ GetStaticPathsFromContext
  \/ \E i \in 1..MaxFetches : StaticPathsIndexResponse(i)
  \/ \E i \in 1..MaxFetches : StaticPathsCollectionResponse(i)
  \/ StaticPathsSettle

SpecStaticPathsFromContext == InitContext /\ [][NextStaticPaths]_vars

\* Any client, with or without the default-entry-point shortcut.
InitResources ==
  /\ \E auth \in AuthOptions, customFetcher \in BOOLEAN :
       /\ ~SetAuthThrows(auth)
       /\ constructed = TRUE
       /\ _auth = SetAuth(auth)
       /\ fetcher = customFetcher
  /\ _token = Nothing
  /\ tokenExpiresOn = Nothing
  /\ now = 0
  /\ calls = [c \in Calls |-> NewCall("none")]
  /\ issued = {}
  /\ lastStored = Nothing
  /\ PureIdle
  /\ \E useDefaultResourceTypeEntry \in BOOLEAN :
       config = Config(useDefaultResourceTypeEntry)
  /\ FlowIdle

\* One caller fetches resources and collections, one call after the other.
NextResources ==
  \/ GetResource(Caller)
  \/ GetResourceCollection(Caller)
  \/ IndexResponse(Caller)
  \/ TokenResponse(Caller)
  \/ TokenJson(Caller)
  \/ AuthResolved(Caller)
  \/ ResourceResponse(Caller)
  \/ Settle(Caller)

SpecResources == InitResources /\ [][NextResources]_vars

\* The preview route, one request after the other.
NextPreview ==
  \/ Preview(Caller)
  \/ TokenResponse(Caller)
  \/ TokenJson(Caller)
  \/ AuthResolved(Caller)
  \/ PreviewResponse(Caller)
  \/ PreviewSettle(Caller)

SpecPreview == Init /\ [][NextPreview]_vars

\* One caller calls getResourceCollection twice with the same arguments
\* against a backend that does not change, while time passes.
NextRepeated ==
  \/ GetResourceCollectionAgain(Caller)
  \/ StableIndexResponse(Caller)
  \/ StableTokenResponse(Caller)
  \/ TokenJson(Caller)
  \/ AuthResolved(Caller)
  \/ StableResourceResponse(Caller)
  \/ Take(Caller)
  \/ Tick

SpecRepeated == InitResources /\ [][NextRepeated]_vars

\* Every operation of the client, one after the other, while time passes.
\* The fan-out of getStaticPathsFromContext runs on the default transport,
\* with MaxJoined collections at most; getResourceByPath and preview take
\* part with some of their arguments.
Quiet == Free(Caller) /\ staticPaths.pc = "idle"

NextClient ==
  \/ Quiet /\ Fetch(Caller)
  \/ Quiet /\ GetAccessToken(Caller)
  \/ Quiet /\ GetResource(Caller)
  \/ /\ Quiet
     /\ GetResourceByPath(Caller)
     /\ calls'[Caller].path \in {<<>>, <<"/", "a">>}
     /\ calls'[Caller].options.params = <<>>
     /\ calls'[Caller].options.deserialize
     /\ ~calls'[Caller].options.isVersionable
  \/ Quiet /\ GetResourceCollection(Caller)
  \/ Quiet /\ GetMenu(Caller)
  \/ Quiet /\ Preview(Caller) /\ ~preview'.options.given
  \/ /\ Quiet
     /\ ~fetcher
     /\ GetStaticPathsFromContext
     /\ Len(staticPaths'.subs) <= MaxJoined
  \/ TokenResponse(Caller)
  \/ TokenJson(Caller)
  \/ AuthResolved(Caller)
  \/ TransportResponse(Caller)
  \/ SubrequestsResponse(Caller)
  \/ IndexResponse(Caller)
  \/ ResourceResponse(Caller)
  \/ MenuResponse(Caller)
  \/ PreviewResponse(Caller)
  \/ PreviewSettle(Caller)
  \/ calls[Caller].op # "preview" /\ Settle(Caller)
  \/ \E i \in 1..MaxFetches : StaticPathsIndexResponse(i)
  \/ \E i \in 1..MaxFetches : StaticPathsCollectionResponse(i)
  \/ StaticPathsSettle
  \/ Tick

SpecClient == InitResources /\ [][NextClient]_vars

(***************************************************************************)
(* The pure functions, each applied to every input of a bounded set on a   *)
(* client that is otherwise at rest.                                       *)
(***************************************************************************)
MaxErrors == 2
MaxLinks == 3
MaxPathLen == 4

\* The sequences over S of length at most n.
SeqsUpTo(S, n) == UNION {[1..k -> S] : k \in 0..n}

ClientAtRest ==
  /\ constructed = TRUE
  /\ _auth = NoAuth
  /\ fetcher = FALSE
  /\ _token = Nothing
  /\ tokenExpiresOn = Nothing
  /\ now = 0
  /\ calls = [c \in Calls |-> NewCall("none")]
  /\ issued = {}
  /\ lastStored = Nothing
  /\ config = Config(FALSE)
  /\ FlowIdle

\* The function has not been applied yet.
Unapplied == fn = "none" /\ result = <<>>

\* The failed responses formatErrorResponse is applied to.
ErrorEntries ==
  {JsonApiError(Str(status), Str("Not Found"), detail) :
     status \in {"404", "500"}, detail \in {Undefined, <<>>, Str("No route")}}

ErrorBodies ==
  {Body(message, FALSE, <<>>) : message \in {Undefined, Str("Access denied")}}
    \cup {Body(Undefined, TRUE, errors) : errors \in SeqsUpTo(ErrorEntries, MaxErrors)}

ContentTypes ==
  {"application/json", "application/vnd.api+json", "text/html",
   "application/json; charset=utf-8"}

ErrorResponses ==
  {Response(FALSE, Str(statusText), contentType, body) :
     statusText \in {"Not Found", "Forbidden"}, contentType \in ContentTypes,
     body \in ErrorBodies}

InitFormat == ClientAtRest /\ Unapplied /\ arg \in ErrorResponses

FormatErrorResponse ==
  /\ fn = "none"
  /\ fn' = "formatErrorResponse"
  /\ result' = formatErrorResponse(arg)
  /\ UNCHANGED <<clientVars, arg, config, flowVars>>

SpecFormat == InitFormat /\ [][FormatErrorResponse]_vars

\* The link lists buildMenuTree is applied to: ids may repeat, parents may
\* dangle ("x") or form cycles.
MenuLinks ==
  {MenuLink(id, parent) : id \in {"a", "b", "c"},
                          parent \in {"", "a", "b", "c", "x"}}

InitMenu == ClientAtRest /\ Unapplied /\ arg \in SeqsUpTo(MenuLinks, MaxLinks)

\* buildMenuTree(links) with the default parent "": the tree, or the
\* RangeError of a recursion that never ends.
BuildMenuTree ==
  /\ fn = "none"
  /\ fn' = "buildMenuTree"
  /\ result' = IF RecursesForever(arg, "", {})
               THEN [thrown |-> TRUE, tree |-> MenuTree(FALSE, <<>>)]
               ELSE [thrown |-> FALSE, tree |-> buildMenuTree(arg, "")]
  /\ UNCHANGED <<clientVars, arg, config, flowVars>>

SpecMenu == InitMenu /\ [][BuildMenuTree]_vars

\* The path lists and options buildStaticPathsParamsFromPaths is applied to.
PathChars == {"/", "a", "b"}

PathLists ==
  {<<path>> : path \in SeqsUpTo(PathChars, MaxPathLen)}
    \cup {<<p, q>> : p, q \in {<<"a", "/", "b">>, <<"/", "b", "/", "a">>, <<"b">>}}

Prefixes == {Undefined, <<"/">>, <<"/", "b">>, <<"b">>}

InitStaticPaths ==
  /\ ClientAtRest
  /\ Unapplied
  /\ arg \in {[paths |-> paths, options |-> StaticPathOptions(prefix, locale)] :
                paths \in PathLists, prefix \in Prefixes,
                locale \in {Undefined, <<"e", "n">>}}

BuildStaticPathsParamsFromPaths ==
  /\ fn = "none"
  /\ fn' = "buildStaticPathsParamsFromPaths"
  /\ result' = buildStaticPathsParamsFromPaths(arg.paths, arg.options)
  /\ UNCHANGED <<clientVars, arg, config, flowVars>>

SpecStaticPaths == InitStaticPaths /\ [][BuildStaticPathsParamsFromPaths]_vars

(***************************************************************************)
(* AuthTokenManager: properties, checked under Spec.                       *)
(***************************************************************************)
IsTokenPost(request) == request.to = "token" /\ request.method = Str("POST")

TokenCalls == {c \in Calls : calls[c].op = "getAccessToken"}

\* C1: with client-credentials auth, a getAccessToken call made while a
\* token is cached and now < (time the token was stored + expires_in * 1000)
\* returns that cached token and sends nothing; a call made with no token
\* cached or at or after that time sends exactly one POST to the token
\* endpoint, and sends nothing more until it completes.
C1_CachedUntilExpiry ==
  [][\A c \in Calls :
       LET before == calls[c]
           after == calls'[c]
           expiry == lastStored[1].at
                       + lastStored[1].token.expires_in * MsPerSecond
       IN  /\ ( /\ before.pc = "idle"
                /\ after.op = "getAccessToken"
                /\ _auth.kind = "object" )
              => IF _token # Nothing /\ now < expiry
                 THEN /\ after.pc = "done"
                      /\ after.outcome = Some(ReturnToken(_token[1]))
                      /\ after.requests = <<>>
                 ELSE /\ after.pc = "tokenResponse"
                      /\ Len(after.requests) = 1
                      /\ IsTokenPost(after.requests[1])
           /\ ( /\ before.op = "getAccessToken"
                /\ after.op = "getAccessToken" )
              => after.requests = before.requests
    ]_vars

\* C1 witness: one call returned the cached token without a request, and a
\* later call, made at or after the expiry, has its token request in flight.
C1_Witness ==
  \E c1, c2 \in Calls :
    /\ calls[c1].op = "getAccessToken" /\ calls[c1].pc = "done"
    /\ calls[c1].outcome[1].kind = "return" /\ calls[c1].requests = <<>>
    /\ calls[c2].op = "getAccessToken" /\ calls[c2].pc = "tokenResponse"
    /\ _token # Nothing
    /\ now >= tokenExpiresOn[1]

\* C5: every getAccessToken call in flight has sent its own token request and
\* a completed one returned the token of its own response; the cache is empty
\* or holds a token the endpoint returned with the expiry computed from that
\* token when it was stored; with no call in flight the cache holds the token
\* of the response processed last.
C5_ConcurrentRefresh ==
  /\ \A c \in TokenCalls :
       /\ calls[c].pc \in {"tokenResponse", "tokenJson"}
            => Len(calls[c].requests) = 1 /\ IsTokenPost(calls[c].requests[1])
       /\ ( /\ calls[c].pc = "done"
            /\ calls[c].tokenResponse # Nothing
            /\ calls[c].tokenResponse[1].ok )
            => calls[c].outcome
                 = Some(ReturnToken(calls[c].tokenResponse[1].token[1]))
  /\ IF _token = Nothing
     THEN tokenExpiresOn = Nothing
     ELSE /\ _token[1] \in issued
          /\ lastStored # Nothing
          /\ tokenExpiresOn
               = Some(lastStored[1].at + _token[1].expires_in * MsPerSecond)
  /\ ( /\ \A c \in Calls : calls[c].pc \in {"idle", "done"}
       /\ lastStored # Nothing )
       => _token = Some(lastStored[1].token)

\* C5 witness: two refreshes raced; one has stored its token, the other's
\* response, a different token, is still to be stored over it.
C5_Witness ==
  \E c1, c2 \in Calls :
    /\ c1 # c2
    /\ calls[c1].op = "getAccessToken" /\ calls[c1].pc = "tokenJson"
    /\ calls[c2].op = "getAccessToken" /\ calls[c2].pc = "done"
    /\ calls[c2].requests # <<>>
    /\ calls[c2].outcome[1].kind = "return"
    /\ _token = calls[c2].outcome[1].token
    /\ calls[c1].tokenResponse[1].token # _token
    /\ now < tokenExpiresOn[1]

\* C6: when the token endpoint answers a getAccessToken call with a response
\* that is not ok, the call fails with the response's status text as its
\* message and the cached token and its expiry stay as they were.
C6_FailedTokenResponse ==
  [][\A c \in Calls :
       ( /\ calls[c].op = "getAccessToken"
         /\ calls[c].pc = "tokenResponse"
         /\ calls'[c].tokenResponse # Nothing
         /\ ~calls'[c].tokenResponse[1].ok )
       => /\ calls'[c].pc = "done"
          /\ calls'[c].outcome
               = Some(Throw(calls'[c].tokenResponse[1].statusText))
          /\ _token' = _token
          /\ tokenExpiresOn' = tokenExpiresOn
    ]_vars

\* C6 witness: a call failed on a token response that was not ok while a
\* token, stored by another call, stays cached.
C6_Witness ==
  \E c \in TokenCalls :
    /\ calls[c].pc = "done"
    /\ calls[c].tokenResponse # Nothing
    /\ ~calls[c].tokenResponse[1].ok
    /\ calls[c].outcome[1].kind = "throw"
    /\ calls[c].outcome[1].error = Str("Bad Request")
    /\ _token # Nothing

AuthMisconfigured ==
  \/ _auth.kind # "object"
  \/ ~Truthy(_auth.clientId)
  \/ ~Truthy(_auth.clientSecret)

\* C7: when this._auth is not an object (absent, or a callback) or lacks a
\* client id or secret, every getAccessToken call has failed with a
\* configuration error without sending a request, and the token cache is as
\* the constructor left it.
C7_ConfigurationError ==
  AuthMisconfigured =>
    /\ _token = Nothing
    /\ tokenExpiresOn = Nothing
    /\ \A c \in TokenCalls :
         /\ calls[c].pc = "done"
         /\ calls[c].outcome[1].kind = "throw"
         /\ calls[c].outcome[1].error \in {AuthNotConfigured, AuthIncomplete}
         /\ calls[c].requests = <<>>

\* C7 witness: a client whose auth is a callback, after a getAccessToken call.
C7_Witness ==
  /\ _auth.kind = "function"
  /\ \E c \in TokenCalls :
       /\ calls[c].pc = "done"
       /\ calls[c].outcome[1].error = AuthNotConfigured

(***************************************************************************)
(* RequestExecutor: properties, checked under SpecFetch.                   *)
(***************************************************************************)
FetchCalls == {c \in Calls : calls[c].op = "fetch"}

\* The message of a failed response, by content type and body.
ClassifiedMessage(response) ==
  CASE response.contentType = "application/json" -> response.body.message
    [] /\ response.contentType = "application/vnd.api+json"
       /\ response.body.hasErrors
       /\ response.body.errors # <<>> ->
         LET first == Head(response.body.errors)
         IN  first.status \o <<" ">> \o first.title
               \o (IF first.detail \in {Undefined, <<>>}
                   THEN <<>>
                   ELSE <<"\n">> \o first.detail)
    [] OTHER -> response.statusText

\* C3 as claimed: whatever the transport, fetch returns only responses that
\* are ok, and a response that is not ok makes the call fail with the
\* classified message.
C3_NeverReturnsFailure ==
  \A c \in FetchCalls :
    (calls[c].pc = "done" /\ calls[c].received # Nothing) =>
      IF calls[c].received[1].ok
      THEN calls[c].outcome[1].kind = "return"
             => calls[c].outcome[1].response[1].ok
      ELSE calls[c].outcome
             = Some(Throw(ClassifiedMessage(calls[c].received[1])))

\* C3 amended: with the default transport fetch returns the response when it
\* is ok and fails with the classified message when it is not; with a custom
\* fetcher set, what fetch returns is the fetcher's response as it is,
\* whatever its status.
C3_DefaultTransportOnly ==
  \A c \in FetchCalls :
    (calls[c].pc = "done" /\ calls[c].received # Nothing) =>
      LET response == calls[c].received[1]
          outcome == calls[c].outcome[1]
      IN  IF fetcher
          THEN outcome.kind = "return" => outcome = ReturnResponse(response)
          ELSE IF response.ok
               THEN outcome = ReturnResponse(response)
               ELSE outcome = Throw(ClassifiedMessage(response))

\* C3 witness: the default transport answered 404 with a JSON:API error and
\* the call failed with "404 Not Found".
C3_Witness ==
  \E c \in FetchCalls :
    /\ ~fetcher
    /\ calls[c].pc = "done"
    /\ calls[c].received # Nothing
    /\ ~calls[c].received[1].ok
    /\ calls[c].outcome[1] = Throw(<<"404", " ", "Not Found">>)

\* C8: with a custom auth callback, every request of a withAuth call carries
\* the value the callback returned as its Authorization header, no request
\* goes to the token endpoint and the token cache stays empty.
C8_CustomAuthCallback ==
  _auth.kind = "function" =>
    /\ _token = Nothing
    /\ tokenExpiresOn = Nothing
    /\ \A c \in Calls : \A i \in DOMAIN calls[c].requests :
         /\ calls[c].requests[i].to # "token"
         /\ (calls[c].op = "fetch" /\ calls[c].init.withAuth)
              => /\ calls[c].authValue \in CallbackValues
                 /\ calls[c].requests[i].authorization = calls[c].authValue

\* C8 witness: a withAuth request went out with the callback's value.
C8_Witness ==
  /\ _auth.kind = "function"
  /\ \E c \in FetchCalls :
       /\ calls[c].init.withAuth
       /\ calls[c].pc = "done"
       /\ Len(calls[c].requests) = 1
       /\ calls[c].requests[1].authorization = Str("Basic abc")

(***************************************************************************)
(* ResourceResolver: properties, checked under SpecPath.                   *)
(***************************************************************************)
\* The getResourceByPath calls with a non-empty path.
PathCalls ==
  {c \in Calls : calls[c].op = "getResourceByPath" /\ calls[c].path # <<>>}

\* The requests of a call that did not go to the token endpoint.
ContentRequests(c) ==
  LET IsContent(r) == r.to # "token" IN SelectSeq(calls[c].requests, IsContent)

EndsWith(s, suffix) ==
  /\ Len(suffix) <= Len(s)
  /\ SubSeq(s, Len(s) - Len(suffix) + 1, Len(s)) = suffix

StartsWith(s, prefix) ==
  /\ Len(prefix) <= Len(s)
  /\ SubSeq(s, 1, Len(prefix)) = prefix

\* One POST whose body is "router", a translate-path of the path, and then
\* "resolvedResource" waiting for "router".
IsSubrequestsBatch(request, path) ==
  /\ request.method = Str("POST")
  /\ Len(request.body) = 2
  /\ request.body[1].requestId = "router"
  /\ StartsWith(request.body[1].uri, Str("/router/translate-path?path="))
  /\ EndsWith(request.body[1].uri,
              StripLeadingSlashes(path) \o Str("&_format=json"))
  /\ request.body[2].requestId = "resolvedResource"
  /\ request.body[2].waitFor = Some(<<"router">>)

SubrequestsUrl(localized, locale) ==
  baseUrl
    \o (IF localized THEN <<"/">> \o locale ELSE <<>>)
    \o <<"/", "subrequests", "?", "_format", "=">> \o Str("json")

\* C2 as claimed: for a non-empty path and any options, getResourceByPath
\* sends exactly one content request, a POST of the two sub-requests to
\* /<locale>/subrequests when a locale other than the default locale is
\* asked for and to /subrequests otherwise.
C2_ExactlyOneBatch ==
  \A c \in PathCalls :
    LET sent == ContentRequests(c)
        options == calls[c].options
    IN  /\ Len(sent) <= 1
        /\ calls[c].pc = "done" => Len(sent) = 1
        /\ \A i \in DOMAIN sent :
             /\ IsSubrequestsBatch(sent[i], calls[c].path)
             /\ sent[i].url
                  = SubrequestsUrl(Truthy(options.locale)
                                     /\ options.locale # options.defaultLocale,
                                   options.locale)

\* C2 amended: at most one content request, and exactly one unless withAuth
\* was asked for and getting the access token failed (then none is sent and
\* the call fails); the request is a POST of the two sub-requests, to
\* /<locale>/subrequests exactly when a locale and a default locale are both
\* given and differ, and to /subrequests otherwise.
C2_OneBatchUnlessAuthFails ==
  \A c \in PathCalls :
    LET sent == ContentRequests(c)
        options == calls[c].options
    IN  /\ Len(sent) <= 1
        /\ calls[c].pc = "done" =>
             \/ Len(sent) = 1
             \/ /\ options.withAuth
                /\ calls[c].outcome[1].kind = "throw"
                /\ calls[c].outcome[1].error
                     \in {AuthNotConfigured, AuthIncomplete}
                          \cup {Str(t) : t \in StatusTexts}
        /\ \A i \in DOMAIN sent :
             /\ IsSubrequestsBatch(sent[i], calls[c].path)
             /\ sent[i].url
                  = SubrequestsUrl(/\ Truthy(options.locale)
                                   /\ Truthy(options.defaultLocale)
                                   /\ options.locale # options.defaultLocale,
                                   options.locale)

\* C2 witness: an authenticated resolution in locale "es" with default "en"
\* fetched a token and then sent its one batch to /es/subrequests.
C2_Witness ==
  \E c \in PathCalls :
    /\ calls[c].pc = "done"
    /\ calls[c].options.locale = <<"e", "s">>
    /\ calls[c].options.defaultLocale = <<"e", "n">>
    /\ Len(calls[c].requests) = 2
    /\ calls[c].requests[1].to = "token"
    /\ calls[c].requests[2].url
         = baseUrl \o <<"/", "e", "s", "/", "subrequests", "?", "_format", "=", "json">>
    /\ calls[c].outcome[1].kind = "return"

(***************************************************************************)
(* ErrorClassifier.                                                        *)
(***************************************************************************)
\* C4: the message of a failed response is the body's message for content
\* type application/json; "{status} {title}" of the first errors entry,
\* followed by "\n{detail}" exactly when that entry has a detail, for content
\* type application/vnd.api+json with a non-empty errors array; the HTTP
\* status text in every other case.  The single error {404, Not Found} gives
\* exactly "404 Not Found".
C4_MessageByContentType ==
  fn = "formatErrorResponse" =>
    /\ result = ClassifiedMessage(arg)
    /\ ( /\ arg.contentType = "application/vnd.api+json"
         /\ arg.body.hasErrors
         /\ arg.body.errors
              = <<JsonApiError(Str("404"), Str("Not Found"), Undefined)>> )
         => result = <<"404", " ", "Not Found">>
    /\ ( arg.contentType \notin {"application/json", "application/vnd.api+json"}
         \/ ( /\ arg.contentType = "application/vnd.api+json"
              /\ (~arg.body.hasErrors \/ arg.body.errors = <<>>) ) )
         => result = arg.statusText

\* C4 witness: a JSON:API response with two errors, the first without and the
\* second with a detail, was formatted as "404 Not Found".
C4_Witness ==
  /\ fn = "formatErrorResponse"
  /\ arg.contentType = "application/vnd.api+json"
  /\ arg.body.hasErrors
  /\ Len(arg.body.errors) = 2
  /\ arg.body.errors[1].detail = Undefined
  /\ arg.body.errors[2] = JsonApiError(Str("500"), Str("Not Found"), Str("No route"))
  /\ result = <<"404", " ", "Not Found">>

(***************************************************************************)
(* MenuTreeBuilder.                                                        *)
(***************************************************************************)
DistinctIds(links) ==
  \A i, j \in DOMAIN links : links[i].id = links[j].id => i = j

\* Where the chain of parents that starts at `parent` ends: at "", at an id
\* no link has, or nowhere.
RECURSIVE ChainEnd(_, _, _)
ChainEnd(links, parent, fuel) ==
  IF parent = "" THEN "root"
  ELSE IF \A i \in DOMAIN links : links[i].id # parent THEN "dangling"
  ELSE IF fuel = 0 THEN "cycle"
  ELSE LET i == CHOOSE i \in DOMAIN links : links[i].id = parent
       IN  ChainEnd(links, links[i].parent, fuel - 1)

Acyclic(links) ==
  \A i \in DOMAIN links : ChainEnd(links, links[i].parent, Len(links)) # "cycle"

\* The links with the given parent, in input order.
LinksWithParent(links, parent) ==
  LET HasParent(link) == link.parent = parent
  IN  SelectSeq(links, HasParent)

\* The nodes of a forest, every one of them, parents before children.
RECURSIVE ForestNodes(_)
ForestNodes(items) ==
  IF items = <<>>
  THEN <<>>
  ELSE <<Head(items)>> \o ForestNodes(Head(items).items)
         \o ForestNodes(Tail(items))

\* The links the nodes of a list stand for.
AsLinks(items) == [i \in DOMAIN items |-> MenuLink(items[i].id, items[i].parent)]

\* C9: for links with distinct ids and acyclic parents, buildMenuTree(links)
\* is a forest whose roots are the links with parent "" in input order, in
\* which the children of every node are the links whose parent is the node's
\* id in input order, and in which every link whose chain of parents ends at
\* "" appears exactly once; no links give an empty forest.
C9_MenuForest ==
  (fn = "buildMenuTree" /\ DistinctIds(arg) /\ Acyclic(arg)) =>
    LET nodes == ForestNodes(result.tree.items)
    IN  /\ ~result.thrown
        /\ AsLinks(result.tree.items) = LinksWithParent(arg, "")
        /\ \A n \in DOMAIN nodes :
             AsLinks(nodes[n].items) = LinksWithParent(arg, nodes[n].id)
        /\ \A i \in DOMAIN arg :
             ChainEnd(arg, arg[i].parent, Len(arg)) = "root"
               => Cardinality({n \in DOMAIN nodes :
                                 nodes[n].id = arg[i].id}) = 1
        /\ arg = <<>> => result.tree = MenuTree(TRUE, <<>>)

\* C9 witness: a with children b and c; the tree has the one root a, b and c
\* below it, and no other node.
C9_Witness ==
  /\ fn = "buildMenuTree"
  /\ arg = <<MenuLink("a", ""), MenuLink("b", "a"), MenuLink("c", "a")>>
  /\ ~result.thrown
  /\ Len(result.tree.items) = 1
  /\ result.tree.items[1].id = "a"
  /\ AsLinks(result.tree.items[1].items) = <<MenuLink("b", "a"), MenuLink("c", "a")>>
  /\ Len(ForestNodes(result.tree.items)) = 3

(***************************************************************************)
(* StaticPathBuilder.                                                      *)
(***************************************************************************)
\* The slug the path is to have: the path without its leading and trailing
\* slash, without the prefix when it begins with it, split on "/"; all of its
\* segments under no prefix, under the default prefix "/", and when it does
\* not begin with the prefix.
ClaimedSlug(path, prefix) ==
  LET trimmed == StripTrailingSlash(StripLeadingSlash(path))
      start == StripLeadingSlash(prefix) \o <<"/">>
  IN  IF /\ Truthy(prefix)
         /\ prefix # <<"/">>
         /\ StartsWith(trimmed, start)
      THEN Split(SubSeq(trimmed, Len(start) + 1, Len(trimmed)))
      ELSE Split(trimmed)

\* C10: buildStaticPathsParamsFromPaths returns one entry per path, in input
\* order, whose slug is the path without its leading and trailing slash and
\* without the prefix at its start, and nowhere else, split on "/"; a path
\* that does not begin with the prefix, and every path under the default
\* prefix "/", keeps all of its segments.
C10_PrefixStrippedFromStart ==
  fn = "buildStaticPathsParamsFromPaths" =>
    /\ Len(result) = Len(arg.paths)
    /\ \A i \in DOMAIN arg.paths :
         result[i].slug = ClaimedSlug(arg.paths[i], arg.options.prefix)

\* The entries are one per path and in order, and the slug is as claimed
\* whenever no prefix is given.
StaticPathsWithoutPrefix ==
  (fn = "buildStaticPathsParamsFromPaths" /\ ~Truthy(arg.options.prefix)) =>
    /\ Len(result) = Len(arg.paths)
    /\ \A i \in DOMAIN arg.paths :
         result[i].slug = ClaimedSlug(arg.paths[i], arg.options.prefix)

\* The path "a/b" under the default prefix "/" came out as the one segment
\* "ab".
StaticPathsDefaultPrefixJoins ==
  /\ fn = "buildStaticPathsParamsFromPaths"
  /\ arg.paths = <<(<<"a", "/", "b">>)>>
  /\ arg.options.prefix = <<"/">>
  /\ result[1].slug = <<(<<"a", "b">>)>>

\* The path "ab/a" under the prefix "/b" lost the "b/" in its middle and came
\* out as the one segment "aa".
StaticPathsPrefixInMiddle ==
  /\ fn = "buildStaticPathsParamsFromPaths"
  /\ arg.paths = <<(<<"a", "b", "/", "a">>)>>
  /\ arg.options.prefix = <<"/", "b">>
  /\ result[1].slug = <<(<<"a", "a">>)>>

(***************************************************************************)
(* StaticPathBuilder over a context: properties, checked under             *)
(* SpecStaticPathsFromContext.                                             *)
(***************************************************************************)
\* The requests of a collection that carry a query: its collection fetches.
CollectionRequests(sub) ==
  LET HasQuery(r) == IndexOf(r.url, <<"?">>) # -1
  IN  SelectSeq(sub.requests, HasQuery)

\* The collection of the call for a type and a locale.
CollectionOf(type, locale) ==
  staticPaths.subs[CHOOSE i \in DOMAIN staticPaths.subs :
                     /\ staticPaths.subs[i].type = type
                     /\ staticPaths.subs[i].locale = locale]

\* The resources the fetches of the call returned: by type in the order
\* given, then by locale in the order of the context, then as in each
\* response; each with the locale of its fetch.
FetchedInOrder ==
  LET Tagged(sub) ==
        [k \in DOMAIN sub.resources[1] |->
           [alias |-> sub.resources[1][k].alias, locale |-> sub.locale]]
      OfType(type) ==
        IF staticPaths.locales = <<>>
        THEN Tagged(CollectionOf(type, Undefined))
        ELSE Flat([l \in DOMAIN staticPaths.locales |->
                     Tagged(CollectionOf(type, staticPaths.locales[l]))])
  IN  Flat([t \in DOMAIN staticPaths.types |-> OfType(staticPaths.types[t])])

AllFetched ==
  /\ staticPaths.pc = "pending"
  /\ \A i \in DOMAIN staticPaths.subs : staticPaths.subs[i].resources # Nothing

\* The entries are one per fetched resource, each with the locale of its
\* fetch, and the front page is the root path.
OneEntryPerResource ==
  /\ staticPaths.outcome # Nothing
  /\ staticPaths.outcome[1].kind = "return"
  /\ LET entries == staticPaths.outcome[1].value
         fetched == FetchedInOrder
     IN  /\ Len(entries) = Len(fetched)
         /\ \A k \in DOMAIN fetched :
              /\ entries[k].locale = fetched[k].locale
              /\ fetched[k].alias = frontPage => entries[k].slug = << <<>> >>

\* The call fans out into one collection per type, or per type and locale,
\* and none of them sends its collection request twice.
OneFetchPerPair ==
  staticPaths.pc = "pending" =>
    /\ Len(staticPaths.subs)
         = IF staticPaths.locales = <<>>
           THEN Len(staticPaths.types)
           ELSE Len(staticPaths.types) * Len(staticPaths.locales)
    /\ \A type \in {staticPaths.types[t] : t \in DOMAIN staticPaths.types} :
       \A locale \in IF staticPaths.locales = <<>>
                      THEN {Undefined}
                      ELSE {staticPaths.locales[l] :
                              l \in DOMAIN staticPaths.locales} :
         Cardinality({i \in DOMAIN staticPaths.subs :
                        /\ staticPaths.subs[i].type = type
                        /\ staticPaths.subs[i].locale = locale}) = 1
    /\ \A i \in DOMAIN staticPaths.subs :
         /\ Len(CollectionRequests(staticPaths.subs[i])) <= 1
         /\ staticPaths.subs[i].resources # Nothing
              => Len(CollectionRequests(staticPaths.subs[i])) = 1

\* C11: getStaticPathsFromContext issues exactly one collection fetch per
\* type and locale, or per type when the context has no locales, and returns
\* exactly one entry for every resource those fetches returned, tagged with
\* the locale of its fetch when locales are configured and untagged
\* otherwise, the front page as the root path.
C11_EntryForEveryResource ==
  /\ OneFetchPerPair
  /\ AllFetched => OneEntryPerResource

\* Every fetched resource has a path alias.
AllAliased ==
  \A i \in DOMAIN staticPaths.subs :
    \A r \in DOMAIN staticPaths.subs[i].resources :
      \A k \in DOMAIN staticPaths.subs[i].resources[r] :
        staticPaths.subs[i].resources[r][k].alias # Null

\* When every fetched resource has a path alias the entries are as C11 says.
EntryForEveryAliasedResource ==
  /\ OneFetchPerPair
  /\ (AllFetched /\ AllAliased) => OneEntryPerResource

\* Every fetch of a call for two locales returned, one of them a resource
\* with no path alias, and the call failed with a TypeError.
UnaliasedResourceFails ==
  /\ AllFetched
  /\ Len(staticPaths.locales) = 2
  /\ ~AllAliased
  /\ staticPaths.outcome = Some(Throw(TypeErrorReplace))

EntriesOf(fetched) ==
  [k \in DOMAIN fetched |->
     staticPathParams(IF fetched[k].alias = frontPage
                      THEN <<"/">>
                      ELSE fetched[k].alias,
                      StaticPathOptions(staticPaths.prefix, fetched[k].locale))]

\* C13: the list returned is ordered by type as given, then by locale as in
\* the context, then as in each response, whatever the order in which the
\* fetches completed.
C13_OrderedAsIssued ==
  ( /\ staticPaths.pc = "pending"
    /\ staticPaths.outcome # Nothing
    /\ staticPaths.outcome[1].kind = "return" ) =>
    /\ AllFetched
    /\ staticPaths.outcome[1].value = EntriesOf(FetchedInOrder)

\* C13 witness: two types in two locales; a later fetch completed before an
\* earlier one, the responses differ, and the call returned.
C13_Witness ==
  /\ staticPaths.pc = "pending"
  /\ Len(staticPaths.types) = 2
  /\ Len(staticPaths.locales) = 2
  /\ staticPaths.outOfOrder
  /\ staticPaths.outcome # Nothing
  /\ staticPaths.outcome[1].kind = "return"
  /\ Len(staticPaths.subs[1].resources[1]) = 2
  /\ Len(staticPaths.subs[2].resources[1]) = 1
  /\ Len(staticPaths.outcome[1].value) >= 5

(***************************************************************************)
(* ResourceFetcher: properties, checked under SpecResources.               *)
(***************************************************************************)
ResourceCalls ==
  {c \in Calls : calls[c].op \in {"getResource", "getResourceCollection"}}

\* The locale a call resolves its endpoint for: the one asked for unless it
\* is the default locale.
ResolvedLocale(call) ==
  IF call.options.locale = call.options.defaultLocale
  THEN <<>>
  ELSE IF call.options.locale = Undefined THEN <<>> ELSE call.options.locale

\* The URL of the index document for a call.
IndexUrlOf(call) ==
  baseUrl
    \o (IF ResolvedLocale(call) = <<>> THEN <<>> ELSE <<"/">> \o ResolvedLocale(call))
    \o <<"/", "jsonapi">>

\* {entityKind}/{bundle} of the type, under base URL and API prefix (and the
\* locale, when one is resolved for).
DefaultEndpointOf(call) ==
  baseUrl \o <<"/", "jsonapi", "/">>
    \o (IF ResolvedLocale(call) = <<>> THEN <<>> ELSE ResolvedLocale(call) \o <<"/">>)
    \o <<call.type[1], "/", call.type[3]>>

IndexRequests(call) ==
  {i \in DOMAIN call.requests : call.requests[i].url = IndexUrlOf(call)}

\* The requests of a call for the resource itself.
ResourceRequestsOf(call) ==
  {i \in DOMAIN call.requests :
     /\ call.requests[i].to # "token"
     /\ call.requests[i].url # IndexUrlOf(call)}

\* The index document was fetched: fetch returned its response.
IndexFetched(call) ==
  /\ call.index # Nothing
  /\ fetcher \/ call.index[1].response.ok

ShortcutEndpointUsed ==
  \E c \in ResourceCalls :
    /\ config.useDefaultResourceTypeEntry
    /\ calls[c].op = "getResourceCollection"
    /\ calls[c].pc = "done"
    /\ calls[c].outcome[1].kind = "return"
    /\ Len(calls[c].requests) = 1
    /\ calls[c].requests[1].url
         = <<"https://drupal.test", "/", "jsonapi", "/", "e", "s", "/", "node",
             "/", "article">>

(***************************************************************************)
(* Idempotence of getResourceCollection, checked under SpecRepeated.       *)
(***************************************************************************)
\* The state of the token cache when a call of the history began, read off
\* the call: it fetched a token, or went on with the cached one.
FetchedToken(call) == call.tokenResponse # Nothing

\* C15: two getResourceCollection calls with identical arguments against a
\* backend that does not change have identical results, whatever the token
\* cache held at each call.
C15_SameResultTwice ==
  \A i, j \in DOMAIN settled :
    ( /\ settled[i].op = "getResourceCollection"
      /\ settled[j].op = "getResourceCollection"
      /\ settled[i].type = settled[j].type
      /\ settled[i].options = settled[j].options ) =>
      settled[i].outcome = settled[j].outcome

\* C15 witness: an authenticated collection was fetched with a fresh token,
\* the token expired, and the same call fetched another token and returned
\* the same collection.
C15_Witness ==
  /\ Len(settled) = 2
  /\ settled[1].options.withAuth
  /\ FetchedToken(settled[1])
  /\ FetchedToken(settled[2])
  /\ settled[1].tokenResponse[1].token # settled[2].tokenResponse[1].token
  /\ settled[1].init.authorization # settled[2].init.authorization
  /\ settled[1].outcome[1].kind = "return"
  /\ settled[2].outcome[1].value = settled[1].outcome[1].value

\* The second of two authenticated calls went on with the token the first
\* had cached and returned the same collection.
RepeatedWithCachedToken ==
  /\ Len(settled) = 2
  /\ settled[1].options.withAuth
  /\ FetchedToken(settled[1])
  /\ ~FetchedToken(settled[2])
  /\ settled[2].outcome[1].kind = "return"
  /\ settled[2].outcome = settled[1].outcome

(***************************************************************************)
(* C18.  The preview handler's 401 answers.                                *)
(***************************************************************************)
\* The request is refused: wrong secret, or the slug is missing.
Refused(query) ==
  query.secret # DRUPAL_PREVIEW_SECRET \/ ~Truthy(query.slug)

\* The message of the 401: the caller's, else the default one; the secret's
\* when the secret is wrong, whatever the slug.
RefusalMessage(query, options) ==
  IF query.secret # DRUPAL_PREVIEW_SECRET
  THEN IF options.given /\ options.hasErrorMessages /\ Truthy(options.secret)
       THEN options.secret ELSE Str("Invalid preview secret.")
  ELSE IF options.given /\ options.hasErrorMessages /\ Truthy(options.slug)
       THEN options.slug ELSE Str("Invalid slug.")

\* Nothing was sent to the resolver, no preview data set, no redirect.
NothingBeyondTheAnswer ==
  /\ calls[Caller].requests = <<>>
  /\ preview.res.previewData = Nothing
  /\ preview.res.location = Nothing

\* C18: a request with a wrong secret or without slug is answered 401 with
\* the caller's message or the default one, the secret's message first, and
\* no resolver request, preview data or redirect comes of it.
C18_RefusedWith401 ==
  (preview.pc = "done" /\ Refused(preview.query)) =>
    /\ preview.res.statusCode = 401
    /\ preview.res.ended = 1
    /\ preview.res.body = [message |-> RefusalMessage(preview.query, preview.options)]
    /\ calls[Caller].outcome = Some(Returned)
    /\ NothingBeyondTheAnswer

\* What the code does keep: a refused request never reaches the resolver,
\* sets no preview data and is not redirected, and a wrong secret given the
\* default options is answered 401 with the secret's message.
RefusedWithoutEffect ==
  (preview.pc = "done" /\ Refused(preview.query)) =>
    /\ NothingBeyondTheAnswer
    /\ preview.res.statusCode \in {200, 401}
    /\ (preview.query.secret # DRUPAL_PREVIEW_SECRET /\ ~preview.options.given) =>
         /\ preview.res.statusCode = 401
         /\ preview.res.body = [message |-> Str("Invalid preview secret.")]

\* The slug is missing, the secret is right, no options are given, and the
\* handler threw out of response.end instead of answering.
MissingSlugThrows ==
  /\ preview.pc = "done"
  /\ preview.query.secret = DRUPAL_PREVIEW_SECRET
  /\ ~Truthy(preview.query.slug)
  /\ ~preview.options.given
  /\ calls[Caller].outcome = Some(Throw(TypeErrorChunk))
  /\ preview.res.ended = 0

\* Options without errorMessages: the wrong secret is not answered at all.
WrongSecretThrows ==
  /\ preview.pc = "done"
  /\ preview.query.secret # DRUPAL_PREVIEW_SECRET
  /\ preview.options.given /\ ~preview.options.hasErrorMessages
  /\ calls[Caller].outcome = Some(Throw(TypeErrorErrorMessages))
  /\ preview.res.statusCode = 200

(***************************************************************************)
(* C19.  buildMenuTree and cycles.                                         *)
(***************************************************************************)
\* The links (by position) below link i: its children, their children, ...
RECURSIVE Below(_, _, _)
Below(links, from, fuel) ==
  LET children == {j \in DOMAIN links :
                     \E i \in from : links[j].parent = links[i].id}
  IN  IF fuel = 0 \/ children \subseteq from
      THEN from \cup children
      ELSE Below(links, from \cup children, fuel - 1)

Descendants(links, i) ==
  Below(links, {j \in DOMAIN links : links[j].parent = links[i].id}, Len(links))

\* The chain of ancestors of link i comes back to link i.
OnCycle(links, i) == i \in Descendants(links, i)

\* buildMenuTree(links) comes to link i: it is a root, or below a root.
Visited(links, i) ==
  \/ links[i].parent = ""
  \/ \E r \in DOMAIN links : links[r].parent = "" /\ i \in Descendants(links, r)

\* C19: given a list with a link whose chain of ancestors cycles back to
\* itself, buildMenuTree(links) recurses without end.
C19_CycleNeverEnds ==
  (fn = "buildMenuTree" /\ \E i \in DOMAIN arg : OnCycle(arg, i))
    => result.thrown

\* C19 amended: buildMenuTree(links) recurses without end exactly when a link
\* on a cycle is a root or below a root; a cycle it does not come to is left
\* out of the tree with everything below it, and among links with distinct
\* non-empty ids it comes to no cycle.
C19_VisitedCycleNeverEnds ==
  fn = "buildMenuTree" =>
    /\ result.thrown <=> \E i \in DOMAIN arg : OnCycle(arg, i) /\ Visited(arg, i)
    /\ ~result.thrown =>
         LET nodes == ForestNodes(result.tree.items)
         IN  \A i \in DOMAIN arg :
               (\E n \in DOMAIN nodes :
                   MenuLink(nodes[n].id, nodes[n].parent) = arg[i])
                 <=> Visited(arg, i)
    /\ DistinctIds(arg) => ~result.thrown

\* C19 witness: a below itself under the root a; the recursion never ends.
C19_Witness ==
  /\ fn = "buildMenuTree"
  /\ arg = <<MenuLink("a", ""), MenuLink("a", "a")>>
  /\ result.thrown

\* a below b and b below a, c a root: the call ends, with c alone.
UnvisitedCycleLeftOut ==
  /\ fn = "buildMenuTree"
  /\ arg = <<MenuLink("a", "b"), MenuLink("b", "a"), MenuLink("c", "")>>
  /\ ~result.thrown
  /\ AsLinks(result.tree.items) = <<MenuLink("c", "")>>
  /\ ~result.tree.items[1].hasItems

(***************************************************************************)
(* C20.  getResourceByPath without a resolved resource.                    *)
(***************************************************************************)
\* The batched response call c got back from fetch, and it has no
\* resolvedResource body.
Unresolved(c) ==
  /\ calls[c].op = "getResourceByPath"
  /\ calls[c].pc = "done"
  /\ calls[c].received # Nothing
  /\ fetcher \/ calls[c].received[1].ok
  /\ calls[c].received[1].contentType = "application/json"
  /\ calls[c].received[1].body.resolvedResource = Nothing

\* C20: without a resolvedResource body, getResourceByPath fails with the
\* message of the router sub-response when it carries one, and returns null
\* otherwise.
C20_MessageOrNull ==
  \A c \in Calls :
    Unresolved(c) =>
      LET router == calls[c].received[1].body.router
      IN  IF router # Nothing /\ Truthy(router[1].message)
          THEN calls[c].outcome = Some(Throw(router[1].message))
          ELSE calls[c].outcome = Some(ReturnValue(Null))

\* C20 witness: the router answered "Unable to resolve path" and the call
\* failed with it.
C20_Witness ==
  \E c \in Calls :
    /\ Unresolved(c)
    /\ calls[c].received[1].body.router = Some([message |-> Str("Unable to resolve path")])
    /\ calls[c].outcome = Some(Throw(Str("Unable to resolve path")))

\* The router answered without a message and the call returned null.
UnresolvedReturnsNull ==
  \E c \in Calls :
    /\ Unresolved(c)
    /\ calls[c].received[1].body.router = Some([message |-> Undefined])
    /\ calls[c].outcome = Some(ReturnValue(Null))

(***************************************************************************)
(* C17.  The client's configuration, checked under SpecClient.             *)
(***************************************************************************)
\* The configuration is as the constructor left it.
AsConstructed ==
  /\ config = Config(config.useDefaultResourceTypeEntry)
  /\ config._headers = DEFAULT_HEADERS
  /\ DOMAIN config._headers = {"Content-Type", "Accept"}

\* The step stores the token of a token response that succeeded, received
\* by a call that asked for authentication.
StoresGrantedToken ==
  \E c \in Calls :
    /\ calls[c].pc = "tokenJson"
    /\ calls[c].op = "getAccessToken" \/ calls[c].init.withAuth
    /\ calls[c].tokenResponse # Nothing
    /\ calls[c].tokenResponse[1].ok
    /\ _token' = Some(calls[c].tokenResponse[1].token[1])
    /\ tokenExpiresOn'
         = Some(now + calls[c].tokenResponse[1].token[1].expires_in * MsPerSecond)

\* C17: over every sequence of operations the base URL, API prefix, default
\* headers, front page, withAuth default and auth configuration keep their
\* constructed values; the cached token and its expiry are the only client
\* state that changes, and they change only when a token response has
\* succeeded for a call that asked for authentication.
C17_ImmutableButTokenCache ==
  [][ /\ AsConstructed
      /\ config' = config
      /\ _auth' = _auth
      /\ fetcher' = fetcher
      /\ constructed' = constructed
      /\ (_token' # _token \/ tokenExpiresOn' # tokenExpiresOn)
           => StoresGrantedToken
    ]_vars

\* C17 witness: after a token had expired, an authenticated preview fetched
\* another one, sent it as Bearer header and redirected; the configuration
\* is as constructed.
C17_Witness ==
  /\ calls[Caller].op = "preview"
  /\ calls[Caller].pc = "done"
  /\ preview.res.location # Nothing
  /\ Len(calls[Caller].requests) = 2
  /\ _token # Nothing
  /\ lastStored # Nothing
  /\ lastStored[1].at > 0
  /\ Cardinality(issued) = 2
  /\ calls[Caller].init.authorization
       = Str("Bearer ") \o Str(_token[1].access_token)
  /\ AsConstructed

(***************************************************************************)
(* C16.  No internal retry, checked under SpecClient.                      *)
(***************************************************************************)
NoRequestTwice(requests) ==
  \A i, j \in DOMAIN requests : requests[i] = requests[j] => i = j

\* In this step a request of call c is answered with a failure: the token
\* endpoint or the backend answers with a response that is not ok, or the
\* transport throws.
AnsweredWithFailure(c) ==
  \/ /\ calls[c].pc = "tokenResponse"
     /\ calls'[c].tokenResponse # Nothing
     /\ ~calls'[c].tokenResponse[1].ok
  \/ /\ calls[c].pc = "transport"
     /\ calls'[c].pc # "transport"
     /\ calls'[c].received = Nothing \/ ~calls'[c].received[1].ok
  \/ /\ calls[c].pc = "index"
     /\ calls'[c].pc # "index"
     /\ calls'[c].index = Nothing \/ ~calls'[c].index[1].response.ok

\* The failure is a response that a custom fetcher handed back.
HandedBackByFetcher(c) ==
  /\ fetcher
  /\ \/ calls[c].pc = "transport" /\ calls'[c].received # Nothing
     \/ calls[c].pc = "index" /\ calls'[c].index # Nothing

\* The operation of call c has failed to its caller and sent nothing more.
FailsAtOnce(c) ==
  /\ calls'[c].pc = "done"
  /\ calls'[c].outcome[1].kind = "throw"
  /\ calls'[c].requests = calls[c].requests

\* Collection i of the fan-out has failed on the answer to its request.
CollectionFailed(call, i) ==
  /\ call.subs[i].pc = "done"
  /\ call.subs[i].outcome[1].kind = "throw"
  /\ call.subs[i].resources = Nothing

\* The same getStaticPathsFromContext call before and after the step.
SameFanOut ==
  /\ staticPaths.pc = "pending"
  /\ staticPaths'.pc = "pending"

\* C16: each request of an operation is sent at most once, and after a
\* request of the operation has failed the operation fails to its caller
\* and neither that request nor any further request is sent for it.
C16_NothingSentAfterFailure ==
  [][ /\ \A c \in Calls :
           /\ NoRequestTwice(calls'[c].requests)
           /\ AnsweredWithFailure(c) => FailsAtOnce(c)
           /\ calls[c].pc = "done" => calls'[c] \in {calls[c], NewCall("none")}
      /\ SameFanOut =>
           \A i \in DOMAIN staticPaths.subs :
             /\ NoRequestTwice(staticPaths'.subs[i].requests)
             /\ (\E k \in DOMAIN staticPaths.subs : CollectionFailed(staticPaths, k))
                  => /\ staticPaths.outcome # Nothing
                     /\ staticPaths.outcome[1].kind = "throw"
                     /\ staticPaths'.subs[i].requests = staticPaths.subs[i].requests
    ]_vars

\* C16 amended: no request is sent twice.  A failed token request, a
\* response that is not ok on the default transport and a transport that
\* throws end the operation with an error at once, and nothing more is sent
\* for it; a response that is not ok handed back by a custom fetcher is not
\* a failure to the client.  In the fan-out of getStaticPathsFromContext the
\* call fails as soon as one collection has failed and that collection sends
\* nothing more, while the other collections go on to send their requests,
\* each at most once.
C16_NoRetry ==
  [][ /\ \A c \in Calls :
           /\ NoRequestTwice(calls'[c].requests)
           /\ (AnsweredWithFailure(c) /\ ~HandedBackByFetcher(c)) => FailsAtOnce(c)
           /\ calls[c].pc = "done" => calls'[c] \in {calls[c], NewCall("none")}
      /\ SameFanOut =>
           \A i \in DOMAIN staticPaths.subs :
             /\ NoRequestTwice(staticPaths'.subs[i].requests)
             /\ Len(staticPaths'.subs[i].requests) <= 2
             /\ CollectionFailed(staticPaths', i)
                  => /\ staticPaths'.outcome # Nothing
                     /\ staticPaths'.outcome[1].kind = "throw"
             /\ staticPaths.subs[i].pc = "done"
                  => staticPaths'.subs[i] = staticPaths.subs[i]
    ]_vars

\* C16 witness: an authenticated getResourceCollection sent the index
\* request, then the token request, which was refused; the call failed with
\* the status text after these two requests.
C16_Witness ==
  /\ calls[Caller].op = "getResourceCollection"
  /\ calls[Caller].pc = "done"
  /\ calls[Caller].tokenResponse # Nothing
  /\ ~calls[Caller].tokenResponse[1].ok
  /\ Len(calls[Caller].requests) = 2
  /\ calls[Caller].requests[2] = TokenRequest
  /\ calls[Caller].outcome
       = Some(Throw(calls[Caller].tokenResponse[1].statusText))

\* The fan-out has failed on the index of its first collection while the
\* second collection has sent its collection request.
OtherCollectionGoesOn ==
  /\ staticPaths.pc = "pending"
  /\ Len(staticPaths.subs) = 2
  /\ CollectionFailed(staticPaths, 1)
  /\ Len(staticPaths.subs[1].requests) = 1
  /\ staticPaths.outcome # Nothing
  /\ staticPaths.outcome[1].kind = "throw"
  /\ staticPaths.subs[2].pc = "collection"
  /\ Len(staticPaths.subs[2].requests) = 2

\* A custom fetcher handed back a response that is not ok and fetch
\* returned it.
FailureHandedBack ==
  /\ fetcher
  /\ calls[Caller].op = "fetch"
  /\ calls[Caller].pc = "done"
  /\ calls[Caller].received # Nothing
  /\ ~calls[Caller].received[1].ok
  /\ calls[Caller].outcome[1].kind = "return"

(***************************************************************************)
(* C21.  The path of the router sub-request, checked under SpecPath.       *)
(***************************************************************************)
\* The path in the uri of the router sub-request.
RouterPath(request) ==
  SubSeq(request.body[1].uri, 2, Len(request.body[1].uri) - 1)

\* The path starts with the segment /<locale>.
StartsWithSegment(path, locale) ==
  /\ StartsWith(path, <<"/">> \o locale)
  /\ Len(path) = Len(locale) + 1 \/ path[Len(locale) + 2] = "/"

\* The path the router is to be asked for: /<locale> in front exactly once
\* for a locale that is not the default one, the path itself otherwise.
ClaimedRouterPath(path, options) ==
  IF Truthy(options.locale) /\ options.locale # options.defaultLocale
  THEN IF StartsWithSegment(path, options.locale)
       THEN path
       ELSE <<"/">> \o options.locale \o path
  ELSE path

\* The paths that begin with one slash.
Rooted(path) ==
  /\ CharAt(path, 0) = "/"
  /\ Len(path) > 1 => path[2] # "/"

\* C21: the router sub-request of getResourceByPath asks for the caller's
\* path with /<locale> in front exactly once when a locale other than the
\* default locale is requested ("/" and a path whose first segment only
\* begins with the locale's letters included), and for the caller's path
\* unchanged when no locale or the default locale is requested.
C21_LocalePrefixedOnce ==
  \A c \in PathCalls :
    Rooted(calls[c].path) =>
      \A i \in DOMAIN ContentRequests(c) :
        RouterPath(ContentRequests(c)[i])
          = ClaimedRouterPath(calls[c].path, calls[c].options)

\* What the code keeps: with a locale and a default locale given, a path of
\* one slash and a first segment that does not begin with the locale's
\* letters is asked for as claimed; with no locale every path is asked for
\* unchanged.
PlainPathLocalized ==
  \A c \in PathCalls :
    \A i \in DOMAIN ContentRequests(c) :
      LET path == calls[c].path
          options == calls[c].options
          asked == RouterPath(ContentRequests(c)[i])
      IN  /\ ( /\ Rooted(path)
               /\ path # <<"/">>
               /\ Truthy(options.locale)
               /\ Truthy(options.defaultLocale)
               /\ ( IndexOf(path, options.locale) # 1
                    \/ StartsWithSegment(path, options.locale) ) )
             => asked = ClaimedRouterPath(path, options)
          /\ ~Truthy(options.locale) => asked = path

\* "/esa" in locale es with default en is asked for as it is.
LocaleLettersTakenForSegment ==
  \E c \in PathCalls :
    /\ calls[c].path = <<"/", "e", "s", "a">>
    /\ calls[c].options.locale = <<"e", "s">>
    /\ calls[c].options.defaultLocale = <<"e", "n">>
    /\ ContentRequests(c) # <<>>
    /\ RouterPath(ContentRequests(c)[1]) = <<"/", "e", "s", "a">>

\* "/" in locale es with default en is asked for as "/es//", and in the
\* default locale en as "//".
RootGetsSecondSlash ==
  \E c \in PathCalls :
    /\ calls[c].path = <<"/">>
    /\ calls[c].options.defaultLocale = <<"e", "n">>
    /\ ContentRequests(c) # <<>>
    /\ \/ /\ calls[c].options.locale = <<"e", "s">>
          /\ RouterPath(ContentRequests(c)[1]) = <<"/", "e", "s", "/", "/">>
       \/ /\ calls[c].options.locale = <<"e", "n">>
          /\ RouterPath(ContentRequests(c)[1]) = <<"/", "/">>

(***************************************************************************)
(* C22.  The resourceVersion of the resolvedResource sub-request, checked  *)
(* under SpecFromContext.                                                  *)
(***************************************************************************)
\* The calls that resolve a path, directly or from a context.
ResolvingCalls ==
  {c \in Calls : /\ calls[c].op \in {"getResourceByPath", "getResourceFromContext"}
                  /\ calls[c].path # <<>>}

\* Where the uri of the resolvedResource sub-request has resourceVersion=.
VersionAt(request) ==
  LET uri == request.body[2].uri
  IN  {k \in DOMAIN uri : /\ uri[k] = "resourceVersion"
                           /\ k < Len(uri)
                           /\ uri[k + 1] = "="}

\* The value that follows resourceVersion= in the uri.
VersionSent(request) ==
  LET uri == request.body[2].uri
      k == CHOOSE k \in VersionAt(request) : TRUE
  IN  IF k + 2 <= Len(uri) /\ uri[k + 2] # "&" THEN <<uri[k + 2]>> ELSE <<>>

\* The resourceVersion the caller supplies: in the params, else, from a
\* context, in the preview data.
VersionSupplied(c) ==
  LET context == calls[c].context
      given == IF context = Nothing
               THEN ParamValue(calls[c].options.params, "resourceVersion")
               ELSE ParamValue(context[1].params, "resourceVersion")
  IN  IF given = Undefined /\ context # Nothing
      THEN context[1].resourceVersion
      ELSE given

\* The caller marks the target versionable.
MarkedVersionable(c) ==
  IF calls[c].context = Nothing
  THEN calls[c].options.isVersionable
  ELSE calls[c].context[1].isVersionable = "true"

\* The sub-request carries resourceVersion exactly when versionable says so,
\* with the supplied value, or rel:latest-version when none is supplied.
CarriesVersionWhen(c, versionable) ==
  \A i \in DOMAIN ContentRequests(c) :
    LET request == ContentRequests(c)[i]
    IN  /\ Cardinality(VersionAt(request)) = (IF versionable THEN 1 ELSE 0)
        /\ versionable =>
             VersionSent(request)
               = (IF VersionSupplied(c) = Undefined
                  THEN Str("rel:latest-version")
                  ELSE VersionSupplied(c))

\* C22: the resolvedResource sub-request carries resourceVersion if and
\* only if the type begins with "node--", or the caller marks the target
\* versionable, or the caller supplies a resourceVersion; its value is the
\* supplied one, else "rel:latest-version".
C22_VersionIffVersionable ==
  \A c \in ResolvingCalls :
    CarriesVersionWhen(c, \/ IsNodeType(calls[c].type)
                          \/ MarkedVersionable(c)
                          \/ VersionSupplied(c) # Undefined)

\* C22 amended: the type counts only in getResourceFromContext and only
\* when the caller gives no isVersionable option, an option given decides
\* instead; getResourceByPath knows no type and takes its isVersionable
\* option, false by default; in both a non-empty resourceVersion supplied
\* makes the target versionable.  The parameter is carried exactly then,
\* with the supplied value, else "rel:latest-version".
C22_VersionIffOptionOrSupplied ==
  \A c \in ResolvingCalls :
    CarriesVersionWhen(c,
      \/ Truthy(VersionSupplied(c))
      \/ IF calls[c].context = Nothing
         THEN calls[c].options.isVersionable
         ELSE IF calls[c].context[1].isVersionable = "absent"
              THEN IsNodeType(calls[c].type)
              ELSE calls[c].context[1].isVersionable = "true")

\* C22 witness: node--page resolved from a context with isVersionable:
\* false and no resourceVersion; the sub-request carries none.
C22_Witness ==
  \E c \in ResolvingCalls :
    /\ calls[c].op = "getResourceFromContext"
    /\ IsNodeType(calls[c].type)
    /\ calls[c].context[1].isVersionable = "false"
    /\ VersionSupplied(c) = Undefined
    /\ ContentRequests(c) # <<>>
    /\ VersionAt(ContentRequests(c)[1]) = {}

\* node--page from a preview context whose preview data has resourceVersion
\* id:5, no option given: the sub-request carries resourceVersion=id:5.
PreviewVersionSent ==
  \E c \in ResolvingCalls :
    /\ calls[c].op = "getResourceFromContext"
    /\ calls[c].context[1].isVersionable = "absent"
    /\ calls[c].context[1].resourceVersion = Str("id:5")
    /\ calls[c].context[1].params = <<>>
    /\ ContentRequests(c) # <<>>
    /\ VersionSent(ContentRequests(c)[1]) = Str("id:5")

\* A node type without any option or version: rel:latest-version.
LatestVersionSent ==
  \E c \in ResolvingCalls :
    /\ IsNodeType(calls[c].type)
    /\ calls[c].context[1].isVersionable = "absent"
    /\ VersionSupplied(c) = Undefined
    /\ ContentRequests(c) # <<>>
    /\ VersionSent(ContentRequests(c)[1]) = Str("rel:latest-version")

(***************************************************************************)
(* C23.  The Bearer header of an authenticated fetch, checked under        *)
(* SpecFetch.                                                              *)
(***************************************************************************)
\* The requests of a call that did not go to the token endpoint.
ContentRequestsOf(call) ==
  LET IsContent(r) == r.to # "token" IN SelectSeq(call.requests, IsContent)

\* C23: with client-credentials auth a fetch with withAuth hands its request
\* to the transport only after getAccessToken has returned, with "Bearer "
\* and the access token that call returned, which is the cached token when
\* it was unexpired at the cache check and the token just issued otherwise;
\* when getting the token fails, the call fails with that error and its
\* request is never handed to the transport.
C23_BearerAfterToken ==
  [][\A c \in Calls :
       LET before == calls[c]
           after == calls'[c]
       IN  (after.op = "fetch" /\ after.init.withAuth /\ _auth.kind = "object") =>
             /\ (before.pc = "idle" /\ after.pc # "idle") =>
                  IF TokenValid
                  THEN /\ after.pc = "authResolved"
                       /\ after.tokenOutcome = Some(ReturnToken(_token[1]))
                       /\ after.requests = <<>>
                  ELSE /\ after.pc = "tokenResponse"
                       /\ after.requests = <<TokenRequest>>
             /\ (before.pc = "tokenResponse" /\ after.pc # "tokenResponse") =>
                  IF after.tokenResponse[1].ok
                  THEN after.pc = "tokenJson" /\ after.requests = before.requests
                  ELSE /\ after.pc = "done"
                       /\ after.outcome
                            = Some(Throw(after.tokenResponse[1].statusText))
                       /\ after.requests = <<TokenRequest>>
             /\ (before.pc = "tokenJson" /\ after.pc # "tokenJson") =>
                  /\ after.pc = "authResolved"
                  /\ after.tokenOutcome
                       = Some(ReturnToken(before.tokenResponse[1].token[1]))
                  /\ before.tokenResponse[1].token[1] \in issued
                  /\ after.requests = before.requests
             /\ (after.pc = "transport" /\ before.pc # "transport") =>
                  /\ before.pc = "authResolved"
                  /\ after.requests
                       = Append(before.requests, after.requests[Len(after.requests)])
                  /\ after.requests[Len(after.requests)].to # "token"
                  /\ after.requests[Len(after.requests)].authorization
                       = Str("Bearer ")
                           \o Str(before.tokenOutcome[1].token[1].access_token)
             /\ after.pc = "done" =>
                  Len(ContentRequestsOf(after)) = (IF after.received # Nothing THEN 1
                                                   ELSE Len(ContentRequestsOf(before)))
    ]_vars

\* C23 witness: the cache was empty; the token request came first, then the
\* request with the Bearer header of the token issued, and the call is done.
C23_Witness ==
  \E c \in FetchCalls :
    /\ _auth.kind = "object"
    /\ calls[c].init.withAuth
    /\ calls[c].pc = "done"
    /\ Len(calls[c].requests) = 2
    /\ calls[c].requests[1] = TokenRequest
    /\ calls[c].tokenResponse[1].ok
    /\ calls[c].requests[2].authorization
         = Str("Bearer ") \o Str(calls[c].tokenResponse[1].token[1].access_token)

\* The cached token was unexpired at the check and its Bearer header went
\* out without a token request.
CachedTokenSent ==
  \E c \in FetchCalls :
    /\ _auth.kind = "object"
    /\ calls[c].init.withAuth
    /\ calls[c].pc = "transport"
    /\ Len(calls[c].requests) = 1
    /\ calls[c].requests[1].authorization
         = Str("Bearer ") \o Str(_token[1].access_token)

\* The token request was refused and the call failed with nothing else sent.
TokenRefusedNothingSent ==
  \E c \in FetchCalls :
    /\ calls[c].init.withAuth
    /\ calls[c].pc = "done"
    /\ calls[c].requests = <<TokenRequest>>
    /\ calls[c].outcome = Some(Throw(Str("Unauthorized")))

(***************************************************************************)
(* C24.  The end of the preview handler, checked under SpecPreview.        *)
(***************************************************************************)
\* The handler is done with a request whose secret is right and whose slug
\* is there.
Admitted ==
  /\ preview.pc = "done"
  /\ preview.query.secret = DRUPAL_PREVIEW_SECRET
  /\ Truthy(preview.query.slug)

\* The resolver answered, and with no entity for the slug.
ResolvedToNoEntity ==
  /\ Admitted
  /\ calls[Caller].received # Nothing
  /\ fetcher \/ calls[Caller].received[1].ok
  /\ calls[Caller].received[1].contentType = "application/json"
  /\ calls[Caller].received[1].body.resolvedResource = Nothing
  /\ ~Truthy(calls[Caller].received[1].body.router[1].message)

\* The resolver answered with an entity.
ResolvedToEntity ==
  /\ Admitted
  /\ calls[Caller].received # Nothing
  /\ fetcher \/ calls[Caller].received[1].ok
  /\ calls[Caller].received[1].body.resolvedResource # Nothing
  /\ ~calls[Caller].received[1].body.resolvedResource[1].hasErrors

\* C24: in every run of the handler the response is ended exactly once; the
\* 307 redirect and the preview data come only with a right secret, a slug
\* and an entity; a slug that resolves to no entity is answered 404 without
\* preview data and without redirect.
C24_EndedOnce ==
  preview.pc = "done" =>
    /\ preview.res.ended = 1
    /\ (preview.res.location # Nothing \/ preview.res.previewData # Nothing
          \/ preview.res.statusCode = 307)
         => ResolvedToEntity
    /\ ResolvedToNoEntity =>
         /\ preview.res.statusCode = 404
         /\ preview.res.previewData = Nothing
         /\ preview.res.location = Nothing

\* What the code keeps: an entity with a path is answered with the preview
\* data and one 307 redirect to its url, and neither preview data nor
\* redirect comes without a right secret and a slug.
RedirectsToEntity ==
  preview.pc = "done" =>
    /\ (preview.res.location # Nothing \/ preview.res.previewData # Nothing)
         => Admitted
    /\ (ResolvedToEntity /\ calls[Caller].outcome = Some(Returned)) =>
         /\ preview.res.ended = 1
         /\ preview.res.statusCode = 307
         /\ preview.res.location # Nothing
         /\ preview.res.location[1] # Null
         /\ preview.res.previewData = Some(preview.query.resourceVersion)

\* No entity, on a response whose end takes an object: ended twice, the
\* second time as a 307 to no location, with the preview data set.
RedirectAfterNotFound ==
  /\ ResolvedToNoEntity
  /\ preview.endTakesObject
  /\ preview.res.ended = 2
  /\ preview.res.statusCode = 307
  /\ preview.res.location = Some(Null)
  /\ preview.res.previewData # Nothing

\* No entity, on a response whose end takes strings and buffers only: the
\* handler throws out of end, the response is not ended.
NotFoundThrows ==
  /\ ResolvedToNoEntity
  /\ ~preview.endTakesObject
  /\ preview.res.ended = 0
  /\ preview.res.statusCode = 404
  /\ calls[Caller].outcome = Some(Throw(TypeErrorChunk))

\* The entity has no path attribute: the handler throws and the response
\* is not ended.
MissingPathNotAnswered ==
  /\ ResolvedToEntity
  /\ preview.res.ended = 0
  /\ calls[Caller].outcome = Some(Throw(PathAttributeMissing))

====
